---- MODULE Spec2Model ----
(***************************************************************************)
(* Verification model of the Deterministic UI Generator.                   *)
(*                                                                         *)
(* Part 1: the incremental patch engine (lib/engine/patch-engine).         *)
(* A UI document is a tree of nodes; applyPatches applies a list of        *)
(* add / update / remove patches, addressed by a target path string, to a  *)
(* deep copy of the caller's document.                                     *)
(*                                                                         *)
(* Representation                                                          *)
(*  - a child of a node is a record with a kind field: a component node,   *)
(*    a text leaf (a JS string) or undefined (a hole in a JS array);       *)
(*  - a target path is the string cut into tokens ("root", ".",            *)
(*    "children[", digits, "]", ...); parsePath scans the tokens the way   *)
(*    the regular expression scans the characters;                         *)
(*  - JS indices are 0-based, TLA+ sequences 1-based: children[k] of the   *)
(*    code is children[k + 1] here;                                        *)
(*  - an object reference is modelled for documents: a handle holds the    *)
(*    document value and whether the handle refers to the very object the  *)
(*    caller holds; an in-place edit through a shared handle also edits    *)
(*    the caller's object;                                                 *)
(*  - a thrown Error is a result record with threw = TRUE.                 *)
(***************************************************************************)
EXTENDS Integers, Sequences, FiniteSets, TLC

VARIABLES
    callerDoc,     \* content of the document object the caller passed in
    before,        \* callerDoc as it was when applyPatches was entered
    current,       \* `current` of applyPatches: a handle [shared, doc]
    errors,        \* `errors` of applyPatches
    appliedCount,  \* `appliedCount` of applyPatches
    patches,       \* the patches of this call the loop has consumed so far
    pc,            \* "idle" | "loop" | "returned" | "edited"
    prev,          \* the loop state before the last iteration
    last,          \* the patch of the last iteration
    origDoc,       \* the document first passed in
    allPatches,    \* every patch consumed since then, over all calls
    calls,         \* number of applyPatches calls made so far
    plan,          \* the planner output of the request the route works on
    finalAST,      \* `finalAST` of the route
    astValidation, \* what validateUIAST returned in this request, if called
    genResult,     \* the GeneratorResult of the last generateCodeFromAST call
    codeFrom,      \* where `code` of the route comes from: generator or model
    rpc,           \* position of the route in step 2
    remembered,    \* an earlier generator call: its document and its result
    sbPath,        \* "sandbox" (executeSandboxed) | "preview" (LivePreview)
    sbCode,        \* the source text the run was given
    sbText,        \* the text as the run has it: sanitized, loop-guarded
    sbStage,       \* position of the run
    sbIp,          \* the statement the constructed function is at
    sbNow,         \* Date.now(), counted from the start of the run
    sbDeadline,    \* the deadline passed to the constructed function
    sbLastIndex,   \* lastIndex of each regular expression of the deny list
    sbResult,      \* the SandboxResult returned
    sbPreview,     \* Component and error of LivePreview, hasError of its boundary
    sbConstructed, \* whether this run has called the Function constructor
    sbFailure,     \* the stage this run failed in
    sbStages,      \* the stages this run has passed, in order
    rlRequests,    \* `requests` of the rate limiter: identifier -> timestamps
    rlNow,         \* Date.now()
    rlAdmitted,    \* every call of the identifier that check has admitted
    rlLast,        \* the last call of check: who, when, verdict, response
    hCode,         \* `code` of the page
    hHistory,      \* `history` of the page: the code of each version
    hIndex,        \* `historyIndex` of the page
    hClosure,      \* code, history and historyIndex held by the request in flight
    vcCode,        \* the code validateComponentUsage was last called on
    vcLastIndex,   \* lastIndex of each regular expression of the validation
    vcResult,      \* the ValidationResult of the last call
    vcCalled,      \* whether validateComponentUsage has been called
    scImports,     \* the specifiers of the lucide-react import of the code
    scDone,        \* how many of them the preview has gone through
    scUsedIcons,   \* `usedIcons` of the preview
    scScope,       \* `combinedScope` of the preview
    scSeen,        \* what a reference to each imported name gives
    scStage,       \* position of the preview in building its scope
    stEvents,      \* the events sent on the stream of the request
    stClosed,      \* whether controller.close() has been called on it
    stPc,          \* position of the route in `start`
    stPlan,        \* the branch of step 2 the plan leads to
    stThrownIn,    \* the step that threw, if one did
    stRequests,    \* how many requests have been streamed
    orKeys,        \* how many unique keys each provider has in this call
    roundRobinState, \* openaiIndex and geminiIndex
    orPos,         \* where orchestratedGenerate is in its loops
    orPc,          \* "idle" | "calling" | "returned" | "threw"
    orFailed,      \* the pairs of model and key this call has given up
    orLast,        \* the last call of a model: its pair and what it came to
    orAttempt      \* `attempt` of orchestratedGenerate

patchVars == <<callerDoc, before, current, errors, appliedCount, patches, pc,
               prev, last, origDoc, allPatches, calls>>

genVars == <<plan, finalAST, astValidation, genResult, codeFrom, rpc, remembered>>

sandboxVars == <<sbPath, sbCode, sbText, sbStage, sbIp, sbNow, sbDeadline,
                 sbLastIndex, sbResult, sbPreview, sbConstructed, sbFailure,
                 sbStages>>

rateVars == <<rlRequests, rlNow, rlAdmitted, rlLast>>

historyVars == <<hCode, hHistory, hIndex, hClosure>>

validationVars == <<vcCode, vcLastIndex, vcResult, vcCalled>>

scopeVars == <<scImports, scDone, scUsedIcons, scScope, scSeen, scStage>>

streamVars == <<stEvents, stClosed, stPc, stPlan, stThrownIn, stRequests>>

orchestratorVars ==
    <<orKeys, roundRobinState, orPos, orPc, orFailed, orLast, orAttempt>>

vars == <<patchVars, genVars, sandboxVars, rateVars, historyVars,
          validationVars, scopeVars, streamVars, orchestratorVars>>

\* What the steps of one part leave alone: the variables of the other parts.
nonPatchVars == <<genVars, sandboxVars, rateVars, historyVars,
                  validationVars, scopeVars, streamVars, orchestratorVars>>

nonGenVars == <<patchVars, sandboxVars, rateVars, historyVars,
                validationVars, scopeVars, streamVars, orchestratorVars>>

nonSandboxVars == <<patchVars, genVars, rateVars, historyVars,
                    validationVars, scopeVars, streamVars, orchestratorVars>>

nonRateVars == <<patchVars, genVars, sandboxVars, historyVars,
                 validationVars, scopeVars, streamVars, orchestratorVars>>

nonHistoryVars == <<patchVars, genVars, sandboxVars, rateVars,
                    validationVars, scopeVars, streamVars, orchestratorVars>>

nonValidationVars == <<patchVars, genVars, sandboxVars, rateVars,
                       historyVars, scopeVars, streamVars, orchestratorVars>>

nonScopeVars == <<patchVars, genVars, sandboxVars, rateVars, historyVars,
                  validationVars, streamVars, orchestratorVars>>

nonStreamVars == <<patchVars, genVars, sandboxVars, rateVars, historyVars,
                   validationVars, scopeVars, orchestratorVars>>

nonOrchestratorVars == <<patchVars, genVars, sandboxVars, rateVars,
                         historyVars, validationVars, scopeVars, streamVars>>

\* ------------------------------------------------------------------ bounds

\* Longest patch sequence applied to one document (over all calls).
MaxPatches == 2

\* Most calls of applyPatches chained on one document, each on the result of
\* the call before.
MaxCalls == 2

\* ------------------------------------------------------------ the AST data

Undefined == [kind |-> "undef"]

Leaf(s) == [kind |-> "text", text |-> s]

Node(t, p, c) == [kind |-> "node", type |-> t, props |-> p, children |-> c]

NoProps == [k \in {} |-> ""]

IsString(c) == c.kind = "text"

\* `!child` / `!existing`: undefined is falsy, an object is truthy.  (The
\* string case is tested before it at every use.)
IsFalsy(c) == c.kind = "undef"

TextHi == Node("Text", [children |-> "Hi"], <<>>)

TextA == Node("Text", [children |-> "A"], <<>>)

ButtonNode == Node("Button", [variant |-> "primary"], <<Leaf("Click me")>>)

CardNode == Node("Card", [variant |-> "primary"], <<TextA, Leaf("leaf")>>)

StackNode == Node("Stack", [gap |-> "md"], <<CardNode>>)

createEmptyAST == [layout |-> "Stack", theme |-> "light", components |-> <<>>]

\* The documents a caller starts from.
Documents ==
    { createEmptyAST,
      [layout |-> "Stack", theme |-> "light", components |-> <<CardNode, ButtonNode>>],
      [layout |-> "Grid", theme |-> "dark", components |-> <<StackNode>>] }

\* ---------------------------------------------------------- target paths

DigitVal == [d \in {"0", "1", "2", "3", "4", "5", "6", "7", "8", "9"} |->
               CASE d = "0" -> 0 [] d = "1" -> 1 [] d = "2" -> 2 [] d = "3" -> 3
                 [] d = "4" -> 4 [] d = "5" -> 5 [] d = "6" -> 6 [] d = "7" -> 7
                 [] d = "8" -> 8 [] d = "9" -> 9]

IsDigit(t) == t \in DOMAIN DigitVal

\* The tokens in which the characters "children[" end: the regular
\* expression is not anchored, so it matches inside a longer word.
EndsWithChildrenOpen(t) == t \in {"children[", "grandchildren["}

\* First position at or after i that does not hold a digit (\d+ is greedy).
RECURSIVE DigitsEnd(_, _)
DigitsEnd(path, i) ==
    IF i <= Len(path) /\ IsDigit(path[i]) THEN DigitsEnd(path, i + 1) ELSE i

\* parseInt(match[1], 10) of the digits at positions i .. j - 1.
RECURSIVE parseInt(_, _, _)
parseInt(path, i, j) ==
    IF j <= i THEN 0 ELSE parseInt(path, i, j - 1) * 10 + DigitVal[path[j - 1]]

Step(n) == [kind |-> "children", index |-> n]

\* regex.exec from position i on: every match of children\[(\d+)\].
RECURSIVE parsePathFrom(_, _)
parsePathFrom(path, i) ==
    IF i > Len(path) THEN <<>>
    ELSE LET Match(j) ==
                 IF /\ EndsWithChildrenOpen(path[i])
                    /\ j > i + 1
                    /\ j <= Len(path)
                    /\ path[j] = "]"
                 THEN <<Step(parseInt(path, i + 1, j))>> \o parsePathFrom(path, j + 1)
                 ELSE parsePathFrom(path, i + 1)
         IN Match(DigitsEnd(path, i + 1))

parsePath(targetPath) == parsePathFrom(targetPath, 1)

\* ------------------------------------------------------- tree navigation

\* array[k] of JS: undefined when k is not an index of the array.
At(children, k) == IF k + 1 \in DOMAIN children THEN children[k + 1] ELSE Undefined

\* The children list of the node reached from `children` by the indices loc.
RECURSIVE ChildrenAt(_, _)
ChildrenAt(children, loc) ==
    IF loc = <<>> THEN children
    ELSE ChildrenAt(children[loc[1] + 1].children, Tail(loc))

\* `children` after the children list at loc was edited in place into `new`.
RECURSIVE SetChildrenAt(_, _, _)
SetChildrenAt(children, loc, new) ==
    IF loc = <<>> THEN new
    ELSE [children EXCEPT ![loc[1] + 1].children = SetChildrenAt(@, Tail(loc), new)]

Throw(m) == [threw |-> TRUE, msg |-> m]

\* The loop of navigateToTarget over all but the last step, from step i on:
\* the error it throws, or nothing.
RECURSIVE NavigateSteps(_, _, _)
NavigateSteps(children, steps, i) ==
    IF i >= Len(steps) THEN [threw |-> FALSE]
    ELSE LET Visit(child) ==
                 IF IsString(child) THEN Throw("points to a text node, not a component")
                 ELSE IF IsFalsy(child) THEN Throw("is out of bounds")
                 ELSE NavigateSteps(child.children, steps, i + 1)
         IN Visit(At(children, steps[i].index))

\* navigateToTarget: the parent (as the indices that lead to it from the
\* top-level components) and the index of the last step.
navigateToTarget(doc, targetPath) ==
    LET Found(steps, nav) ==
            IF nav.threw THEN nav
            ELSE [threw  |-> FALSE,
                  parent |-> [i \in 1 .. Len(steps) - 1 |-> steps[i].index],
                  index  |-> steps[Len(steps)].index]
        Navigate(steps) ==
            IF Len(steps) = 0 THEN Throw("Invalid target path")
            ELSE Found(steps, NavigateSteps(doc.components, steps, 1))
    IN Navigate(parsePath(targetPath))

\* ------------------------------------------------------------ references

Handle(s, d) == [shared |-> s, doc |-> d]

\* A copy that is no copy: the same object is handed back.
structuredCloneSameObject(h) == h

\* structuredClone: a deep copy is a new object, which nobody else holds.
structuredClone(h) == Handle(FALSE, h.doc)

Return(h, d) == [threw |-> FALSE, ast |-> Handle(h.shared, d)]

\* --------------------------------------------------------- the three edits

\* addNode with the index checked like that of a remove: an index past the
\* end throws instead of appending.
addNodeStrictIndex(ast, targetPath, component) ==
    LET result == structuredClone(ast)
        steps  == parsePath(targetPath)
    IN
    IF Len(steps) = 0
    THEN Return(result, [result.doc EXCEPT !.components = Append(@, component)])
    ELSE LET nav == navigateToTarget(result.doc, targetPath) IN
         IF nav.threw THEN nav
         ELSE LET children == ChildrenAt(result.doc.components, nav.parent) IN
              IF nav.index >= Len(children) THEN Throw("No node at index")
              ELSE Return(result,
                          [result.doc EXCEPT !.components =
                              SelectSeq(SubSeq(children, 1, nav.index + 1)
                                        \o <<component>>
                                        \o SubSeq(children, nav.index + 2, Len(children)),
                                        LAMBDA c : ~IsString(c))])

addNode(ast, targetPath, component) ==
    LET NotString(c) == ~IsString(c)
        \* "Sync components back": the parent's children, whichever node the
        \* parent is, become the top-level components.
        Sync(result, inserted) ==
            Return(result,
                   [result.doc EXCEPT !.components = SelectSeq(inserted, NotString)])
        Insert(result, index, children) ==
            IF index >= Len(children)
            THEN Sync(result, Append(children, component))
            ELSE Sync(result, SubSeq(children, 1, index + 1) \o <<component>>
                              \o SubSeq(children, index + 2, Len(children)))
        Nested(result, nav) ==
            IF nav.threw THEN nav
            ELSE Insert(result, nav.index,
                        ChildrenAt(result.doc.components, nav.parent))
        Add(result, steps) ==
            IF Len(steps) = 0
            THEN Return(result, [result.doc EXCEPT !.components = Append(@, component)])
            ELSE Nested(result, navigateToTarget(result.doc, targetPath))
    IN Add(structuredClone(ast), parsePath(targetPath))

\* The spread written the other way round: existing keys win.
MergePropsExistingWins(old, new) ==
    [k \in DOMAIN old \cup DOMAIN new |-> IF k \in DOMAIN old THEN old[k] ELSE new[k]]

\* { ...existing.props, ...props }
MergeProps(old, new) ==
    [k \in DOMAIN old \cup DOMAIN new |-> IF k \in DOMAIN new THEN new[k] ELSE old[k]]

\* updateNode that puts the merged node in front of the existing one instead
\* of editing the existing one.
updateNodeInsertsCopy(ast, targetPath, component, props) ==
    LET result == structuredClone(ast)
        nav    == navigateToTarget(result.doc, targetPath)
    IN
    IF nav.threw THEN nav
    ELSE LET children == ChildrenAt(result.doc.components, nav.parent)
             existing == At(children, nav.index)
         IN
         IF IsString(existing) THEN Throw("Cannot update a text node")
         ELSE IF IsFalsy(existing) THEN Throw("No node at")
         ELSE IF ~IsFalsy(component)
         THEN Return(result,
                     [result.doc EXCEPT !.components =
                         SetChildrenAt(@, nav.parent,
                             [children EXCEPT ![nav.index + 1] = component])])
         ELSE IF props.given
         THEN Return(result,
                     [result.doc EXCEPT !.components =
                         SetChildrenAt(@, nav.parent,
                             SubSeq(children, 1, nav.index)
                             \o <<[existing EXCEPT !.props = MergeProps(@, props.map)]>>
                             \o SubSeq(children, nav.index + 1, Len(children)))])
         ELSE Return(result, result.doc)

updateNode(ast, targetPath, component, props) ==
    LET Edit(result, nav, children, existing) ==
            IF IsString(existing) THEN Throw("Cannot update a text node")
            ELSE IF IsFalsy(existing) THEN Throw("No node at")
            ELSE IF ~IsFalsy(component)
            THEN Return(result,
                        [result.doc EXCEPT !.components =
                            SetChildrenAt(@, nav.parent,
                                [children EXCEPT ![nav.index + 1] = component])])
            ELSE IF props.given
            THEN Return(result,
                        [result.doc EXCEPT !.components =
                            SetChildrenAt(@, nav.parent,
                                [children EXCEPT ![nav.index + 1].props =
                                    MergeProps(@, props.map)])])
            ELSE Return(result, result.doc)
        Existing(result, nav, children) ==
            Edit(result, nav, children, At(children, nav.index))
        Update(result, nav) ==
            IF nav.threw THEN nav
            ELSE Existing(result, nav, ChildrenAt(result.doc.components, nav.parent))
        Clone(result) == Update(result, navigateToTarget(result.doc, targetPath))
    IN Clone(structuredClone(ast))

\* removeNode without its bounds check: splice past the end removes nothing.
removeNodeUnchecked(ast, targetPath) ==
    LET result == structuredClone(ast)
        nav    == navigateToTarget(result.doc, targetPath)
    IN
    IF nav.threw THEN nav
    ELSE LET children == ChildrenAt(result.doc.components, nav.parent) IN
         Return(result,
                [result.doc EXCEPT !.components =
                    SetChildrenAt(@, nav.parent,
                        SubSeq(children, 1, nav.index)
                        \o SubSeq(children, nav.index + 2, Len(children)))])

removeNode(ast, targetPath) ==
    LET Splice(result, nav, children) ==
            IF nav.index >= Len(children) THEN Throw("No node at index")
            ELSE Return(result,
                        [result.doc EXCEPT !.components =
                            SetChildrenAt(@, nav.parent,
                                SubSeq(children, 1, nav.index)
                                \o SubSeq(children, nav.index + 2, Len(children)))])
        Remove(result, nav) ==
            IF nav.threw THEN nav
            ELSE Splice(result, nav, ChildrenAt(result.doc.components, nav.parent))
        Clone(result) == Remove(result, navigateToTarget(result.doc, targetPath))
    IN Clone(structuredClone(ast))

applySinglePatch(ast, patch) ==
    CASE patch.action = "add"    -> addNode(ast, patch.targetPath, patch.component)
      [] patch.action = "update" ->
             updateNode(ast, patch.targetPath, patch.component, patch.props)
      [] patch.action = "remove" -> removeNode(ast, patch.targetPath)
      [] OTHER                   -> Throw("Unknown patch action")

\* ------------------------------------------------------------ applyPatches

\* Lines 22-24: the state the loop starts in.
LoopInit(ast) == [current |-> structuredClone(ast), errors |-> <<>>, appliedCount |-> 0]

\* The catch made fatal for the batch: after an error no patch is applied.
LoopBodyStopsAfterError(st, patch) ==
    LET r == applySinglePatch(st.current, patch) IN
    IF Len(st.errors) > 0 THEN st
    ELSE IF r.threw
    THEN [st EXCEPT !.errors = Append(@, [action     |-> patch.action,
                                          targetPath |-> patch.targetPath,
                                          msg        |-> r.msg])]
    ELSE [st EXCEPT !.current = r.ast, !.appliedCount = @ + 1]

\* The count moved out of the try block: a failed patch is counted too.
LoopBodyCountsFailures(st, patch) ==
    LET r == applySinglePatch(st.current, patch) IN
    IF r.threw
    THEN [st EXCEPT !.errors = Append(@, [action     |-> patch.action,
                                          targetPath |-> patch.targetPath,
                                          msg        |-> r.msg]),
                    !.appliedCount = @ + 1]
    ELSE [st EXCEPT !.current = r.ast, !.appliedCount = @ + 1]

\* Lines 26-34: one iteration of the loop, try and catch.
LoopBody(st, patch) ==
    LET Try(r) ==
            IF r.threw
            THEN [st EXCEPT !.errors = Append(@, [action     |-> patch.action,
                                                  targetPath |-> patch.targetPath,
                                                  msg        |-> r.msg])]
            ELSE [st EXCEPT !.current = r.ast, !.appliedCount = @ + 1]
    IN Try(applySinglePatch(st.current, patch))

\* Lines 36-41: the PatchResult.
PatchResult(st) ==
    [success        |-> Len(st.errors) = 0,
     ast            |-> st.current,
     appliedPatches |-> st.appliedCount,
     errors         |-> st.errors]

RECURSIVE LoopFrom(_, _, _)
LoopFrom(st, patchList, i) ==
    IF i > Len(patchList) THEN st
    ELSE LoopFrom(LoopBody(st, patchList[i]), patchList, i + 1)

applyPatches(ast, patchList) == PatchResult(LoopFrom(LoopInit(ast), patchList, 1))

\* ------------------------------------------------------------ the inputs

Seg(d) == <<"children[", d, "]">>

PathRoot == <<"root">>

\* "root.children[a]", "root.children[a].children[b]", ...
Path1(a) == <<"root", ".">> \o Seg(a)

Path2(a, b) == Path1(a) \o <<".">> \o Seg(b)

Path3(a, b, c) == Path2(a, b) \o <<".">> \o Seg(c)

\* "root.children[10].children[0]"
PathFarParent == <<"root", ".", "children[", "1", "0", "]", ".">> \o Seg("0")

\* "children[0]": a chain without the leading root
PathBare0 == Seg("0")

\* Paths outside the grammar.
PathFoo == <<"foo">>

PathComponents == <<"components[", "0", "]", ".">> \o Seg("1")

PathGrand == <<"root", ".", "grandchildren[", "0", "]">>

PathNegative == <<"root", ".", "children[", "-", "1", "]">>

NotGiven == [given |-> FALSE, map |-> NoProps]

Given(m) == [given |-> TRUE, map |-> m]

Ghost == Given([variant |-> "ghost"])

Patch(a, t, c, p) == [action |-> a, targetPath |-> t, component |-> c, props |-> p]

\* The patches a planner output is drawn from.
Patches ==
    { Patch("add", PathRoot, TextHi, NotGiven),
      Patch("add", PathRoot, Undefined, NotGiven),
      Patch("add", Path1("0"), TextHi, NotGiven),
      Patch("add", Path1("5"), TextHi, NotGiven),
      Patch("add", Path2("0", "0"), TextHi, NotGiven),
      Patch("add", Path2("0", "0"), Undefined, NotGiven),
      Patch("add", PathFoo, TextHi, NotGiven),
      Patch("update", Path1("0"), Undefined, Ghost),
      Patch("update", Path2("0", "0"), Undefined, Ghost),
      Patch("update", Path1("1"), TextHi, NotGiven),
      Patch("update", PathBare0, TextHi, Ghost),
      Patch("update", Path1("5"), Undefined, Ghost),
      Patch("update", Path2("0", "1"), Undefined, Ghost),
      Patch("update", PathComponents, Undefined, Ghost),
      Patch("remove", Path1("0"), Undefined, NotGiven),
      Patch("remove", Path2("0", "1"), Undefined, NotGiven),
      Patch("remove", Path2("0", "5"), Undefined, NotGiven),
      Patch("remove", Path3("0", "1", "0"), Undefined, NotGiven),
      Patch("remove", PathFarParent, Undefined, NotGiven),
      Patch("remove", PathGrand, Undefined, NotGiven),
      Patch("remove", PathNegative, Undefined, NotGiven) }

NoPatch == Patch("none", <<>>, Undefined, NotGiven)

\* ======================================================================
\* Part 2: the registry schemas and the validator (lib/schema/ui-ast), the
\* code generator (lib/engine/ast-to-code) and the generator step of the
\* route (app/api/generate/route).
\*
\* Representation
\*  - a prop value is a string: a JS string stands for itself, the other JS
\*    values are written with a leading "#" ("#true", "#2", "#data");
\*  - a property schema is a function from its keys to fields; a field says
\*    which values it accepts and the default zod fills in ("#undefined" for
\*    none);
\*  - an array of messages is a sequence with one entry per node and kind of
\*    issue, in the order the nodes are visited;
\*  - the generated code is kept structured: the import lines, the state and
\*    handler declarations, and the JSX tree with one attribute per prop.
\* ======================================================================

\* ------------------------------------------------------------- JS values

JSUndefined == "#undefined"

\* An array of { label, value } records.
ChartData == "#data"

typeof(v) ==
    IF v \in {"#true", "#false"} THEN "boolean"
    ELSE IF v \in {"#0", "#1", "#2", "#3", "#4", "#5"} THEN "number"
    ELSE IF v = ChartData THEN "object"
    ELSE IF v = JSUndefined THEN "undefined"
    ELSE "string"

\* ------------------------------------------------------ the prop schemas

\* The registry: the property schema of every component type.  A schema is
\* written as in the source, field by field (lines 7-173), and the map of
\* lines 179-209 follows.
COMPONENT_PROP_SCHEMAS ==
    LET
        \* z.enum / z.union of literals, .optional().default(d)
        Enum(S, d) == [kind |-> "enum", values |-> S, default |-> d]
        \* z.string().optional()
        Str == [kind |-> "string", values |-> {}, default |-> JSUndefined]
        \* z.boolean().optional().default(d); d = JSUndefined for no default
        Bool(d) == [kind |-> "boolean", values |-> {"#true", "#false"}, default |-> d]
        \* ChartDataSchema.optional()
        Data == [kind |-> "enum", values |-> {ChartData}, default |-> JSUndefined]
        VariantEnum == {"primary", "secondary", "ghost"}
        SizeEnum == {"sm", "md", "lg"}
        ElevationEnum == {"#0", "#1", "#2", "#3"}
        AnimationEnum == {"none", "fade", "slide"}
        ButtonVariantEnum == {"primary", "secondary", "outline", "ghost", "destructive"}
        ButtonSizeEnum == {"sm", "md", "lg", "icon"}
        EmptySchema == [k \in {} |-> Str]
        ChildrenOnlySchema == [children |-> Str]
        ButtonPropsSchema ==
            [variant |-> Enum(ButtonVariantEnum, "primary"),
             size |-> Enum(ButtonSizeEnum, "md"),
             elevation |-> Enum(ElevationEnum, "#0"),
             animation |-> Enum(AnimationEnum, "none"),
             isLoading |-> Bool("#false"),
             onClick |-> Str,
             children |-> Str,
             disabled |-> Bool(JSUndefined)]
        InputPropsSchema ==
            [type |-> Enum({"text", "password", "email", "number"}, "text"),
             label |-> Str,
             error |-> Str,
             placeholder |-> Str,
             elevation |-> Enum(ElevationEnum, "#0"),
             animation |-> Enum(AnimationEnum, "none")]
        CardPropsSchema ==
            [variant |-> Enum(VariantEnum, "primary"),
             elevation |-> Enum(ElevationEnum, "#1"),
             animation |-> Enum(AnimationEnum, "none")]
        BoxPropsSchema ==
            [padding |-> Enum({"none", "sm", "md", "lg"}, "md"),
             background |-> Enum({"default", "muted", "brand"}, "default"),
             elevation |-> Enum(ElevationEnum, "#0"),
             animation |-> Enum(AnimationEnum, "none")]
        StackPropsSchema ==
            [direction |-> Enum({"row", "column"}, "column"),
             gap |-> Enum({"none", "sm", "md", "lg"}, "md"),
             align |-> Enum({"start", "center", "end", "stretch"}, "stretch"),
             justify |-> Enum({"start", "center", "end", "between"}, "start"),
             elevation |-> Enum(ElevationEnum, "#0"),
             animation |-> Enum(AnimationEnum, "none")]
        GridPropsSchema ==
            [columns |-> Enum({"#1", "#2", "#3", "#4"}, "#1"),
             gap |-> Enum({"sm", "md", "lg"}, "md"),
             responsive |-> Bool("#true"),
             elevation |-> Enum(ElevationEnum, "#0"),
             animation |-> Enum(AnimationEnum, "none")]
        ContainerPropsSchema ==
            [elevation |-> Enum(ElevationEnum, "#0"),
             animation |-> Enum(AnimationEnum, "none")]
        HeadingPropsSchema ==
            [level |-> Enum({"#1", "#2", "#3", "#4"}, "#1"),
             children |-> Str,
             elevation |-> Enum(ElevationEnum, "#0"),
             animation |-> Enum(AnimationEnum, "none")]
        TextPropsSchema ==
            [size |-> Enum(SizeEnum, "md"),
             type |-> Enum({"default", "muted"}, "default"),
             children |-> Str,
             elevation |-> Enum(ElevationEnum, "#0"),
             animation |-> Enum(AnimationEnum, "none")]
        ModalPropsSchema ==
            [isOpen |-> Bool("#false"),
             onClose |-> Str,
             title |-> Str,
             variant |-> Enum(VariantEnum, "primary"),
             elevation |-> Enum(ElevationEnum, "#2"),
             animation |-> Enum(AnimationEnum, "fade")]
        NavbarPropsSchema ==
            [logo |-> Str,
             variant |-> Enum(VariantEnum, "primary"),
             elevation |-> Enum(ElevationEnum, "#1"),
             animation |-> Enum(AnimationEnum, "none"),
             hasDropdown |-> Bool("#false")]
        SidebarPropsSchema ==
            [variant |-> Enum(VariantEnum, "primary"),
             elevation |-> Enum(ElevationEnum, "#0"),
             animation |-> Enum(AnimationEnum, "none"),
             collapsible |-> Bool("#false"),
             defaultCollapsed |-> Bool("#false")]
        SidebarItemPropsSchema ==
            [isActive |-> Bool("#false"),
             icon |-> Str,
             children |-> Str]
        \* BarChartPropsSchema, LineChartPropsSchema and PieChartPropsSchema are the
        \* same schema written three times.
        ChartPropsSchema ==
            [title |-> Str,
             data |-> Data,
             size |-> Enum(SizeEnum, "md"),
             variant |-> Enum(VariantEnum, "primary"),
             elevation |-> Enum(ElevationEnum, "#0"),
             animation |-> Enum(AnimationEnum, "fade")]
        TablePropsSchema ==
            [elevation |-> Enum(ElevationEnum, "#0"),
             animation |-> Enum(AnimationEnum, "none")]
    IN
        [Button |-> ButtonPropsSchema,
         Input |-> InputPropsSchema,
         Card |-> CardPropsSchema,
         CardHeader |-> EmptySchema,
         CardTitle |-> ChildrenOnlySchema,
         CardDescription |-> ChildrenOnlySchema,
         CardContent |-> EmptySchema,
         CardFooter |-> EmptySchema,
         Box |-> BoxPropsSchema,
         Stack |-> StackPropsSchema,
         Grid |-> GridPropsSchema,
         Container |-> ContainerPropsSchema,
         Heading |-> HeadingPropsSchema,
         Text |-> TextPropsSchema,
         Modal |-> ModalPropsSchema,
         Navbar |-> NavbarPropsSchema,
         Sidebar |-> SidebarPropsSchema,
         SidebarItem |-> SidebarItemPropsSchema,
         BarChart |-> ChartPropsSchema,
         LineChart |-> ChartPropsSchema,
         PieChart |-> ChartPropsSchema,
         Table |-> TablePropsSchema,
         TableHeader |-> EmptySchema,
         TableBody |-> EmptySchema,
         TableRow |-> EmptySchema,
         TableHead |-> ChildrenOnlySchema,
         TableCell |-> ChildrenOnlySchema,
         TableFooter |-> EmptySchema,
         TableCaption |-> ChildrenOnlySchema]

ALLOWED_COMPONENT_TYPES == DOMAIN COMPONENT_PROP_SCHEMAS

LayoutEnum == {"Stack", "Grid", "Sidebar", "Dashboard", "Form", "Hero", "Split", "Full"}

ThemeEnum == {"light", "dark"}

\* ------------------------------------------------- parsing with a schema

Accepts(field, v) ==
    IF field.kind = "string" THEN typeof(v) = "string" ELSE v \in field.values

Issue(c, t, ks) == [code |-> c, type |-> t, keys |-> ks]

\* schema.safeParse(props) of a strict object schema.  error.issues: the
\* issue of the fields whose value is not accepted, then the unrecognized
\* keys (one issue for all of them).  data: the props given, and the
\* default of every key that has one and was not given.
safeParse(type, schema, props) ==
    LET Go(invalid, unrecognized) ==
            [success |-> invalid = {} /\ unrecognized = {},
             issues |->
                (IF invalid = {} THEN <<>>
                 ELSE <<Issue("invalid", type, invalid)>>)
                \o (IF unrecognized = {} THEN <<>>
                    ELSE <<Issue("unrecognized_keys", type, unrecognized)>>),
             data |->
                [k \in DOMAIN props
                        \cup {d \in DOMAIN schema : schema[d].default # JSUndefined}
                    |-> IF k \in DOMAIN props THEN props[k] ELSE schema[k].default]]
    IN Go({k \in DOMAIN props \cap DOMAIN schema : ~Accepts(schema[k], props[k])},
          DOMAIN props \ DOMAIN schema)

\* validateNodeProps
validateNodeProps(type, props) ==
    IF type \notin DOMAIN COMPONENT_PROP_SCHEMAS
    THEN [valid |-> FALSE, sanitized |-> NoProps,
          errors |-> <<Issue("unknown_component", type, {})>>]
    ELSE LET Go(result) ==
                 IF result.success
                 THEN [valid |-> TRUE, sanitized |-> result.data, errors |-> <<>>]
                 ELSE [valid |-> FALSE, sanitized |-> props, errors |-> result.issues]
         IN Go(safeParse(type, COMPONENT_PROP_SCHEMAS[type], props))

\* ------------------------------------------------------------ validateUIAST

\* UIASTNodeSchema: an object whose type is in the registry and whose
\* children are nodes or strings, at every depth.
RECURSIVE NodeParses(_)
NodeParses(c) ==
    /\ c.kind = "node"
    /\ c.type \in ALLOWED_COMPONENT_TYPES
    /\ \A i \in DOMAIN c.children :
          c.children[i].kind = "text" \/ NodeParses(c.children[i])

\* UIASTSchema.safeParse(ast).success
topParse(ast) ==
    /\ ast.layout \in LayoutEnum
    /\ ast.theme \in ThemeEnum
    /\ \A i \in DOMAIN ast.components : NodeParses(ast.components[i])

NoMessages == [errors |-> <<>>, warnings |-> <<>>]

\* issue.code === "unrecognized_keys"
IsUnrecognized(issue) == issue.code = "unrecognized_keys"

IsError(issue) == ~IsUnrecognized(issue)

\* The validator that looks at the nodes of the top level only.
validateNodeShallow(node) ==
    IF node.type \notin DOMAIN COMPONENT_PROP_SCHEMAS
    THEN [errors |-> <<Issue("unknown_component", node.type, {})>>,
          warnings |-> <<>>]
    ELSE LET Go(issues) ==
                 [errors |-> SelectSeq(issues, IsError),
                  warnings |-> SelectSeq(issues, IsUnrecognized)]
         IN Go(safeParse(node.type, COMPONENT_PROP_SCHEMAS[node.type],
                         node.props).issues)

\* validateNode: the messages of the node, then those of its child nodes.
RECURSIVE validateNode(_)
validateNode(node) ==
    IF node.type \notin DOMAIN COMPONENT_PROP_SCHEMAS
    THEN [errors |-> <<Issue("unknown_component", node.type, {})>>,
          warnings |-> <<>>]
    ELSE LET RECURSIVE Each(_, _)
             Each(children, i) ==
                 IF i > Len(children) THEN NoMessages
                 ELSE IF children[i].kind = "text" THEN Each(children, i + 1)
                 ELSE LET Join(m, rest) ==
                              [errors |-> m.errors \o rest.errors,
                               warnings |-> m.warnings \o rest.warnings]
                      IN Join(validateNode(children[i]), Each(children, i + 1))
             Go(issues, below) ==
                 [errors |-> SelectSeq(issues, IsError) \o below.errors,
                  warnings |-> SelectSeq(issues, IsUnrecognized) \o below.warnings]
         IN Go(safeParse(node.type, COMPONENT_PROP_SCHEMAS[node.type],
                         node.props).issues,
               Each(node.children, 1))

\* parsed.components.forEach(validateNode)
RECURSIVE validateComponents(_, _)
validateComponents(components, i) ==
    IF i > Len(components) THEN NoMessages
    ELSE LET Join(m, rest) ==
                 [errors |-> m.errors \o rest.errors,
                  warnings |-> m.warnings \o rest.warnings]
         IN Join(validateNode(components[i]), validateComponents(components, i + 1))

validateUIAST(ast) ==
    IF ~topParse(ast)
    THEN [ran |-> TRUE, valid |-> FALSE,
          errors |-> <<Issue("schema", "", {})>>, warnings |-> <<>>]
    ELSE LET Go(m) ==
                 [ran |-> TRUE, valid |-> m.errors = <<>>,
                  errors |-> m.errors, warnings |-> m.warnings]
         IN Go(validateComponents(ast.components, 1))

\* ------------------------------------------------------- the code generator

IMPORT_MAP ==
    [Button |-> "@/components/ui-lib/Button",
     Input |-> "@/components/ui-lib/Input",
     Card |-> "@/components/ui-lib/Card",
     CardHeader |-> "@/components/ui-lib/Card",
     CardTitle |-> "@/components/ui-lib/Card",
     CardDescription |-> "@/components/ui-lib/Card",
     CardContent |-> "@/components/ui-lib/Card",
     CardFooter |-> "@/components/ui-lib/Card",
     Box |-> "@/components/ui-lib/Layouts",
     Stack |-> "@/components/ui-lib/Layouts",
     Grid |-> "@/components/ui-lib/Layouts",
     Container |-> "@/components/ui-lib/Layouts",
     Heading |-> "@/components/ui-lib/Typography",
     Text |-> "@/components/ui-lib/Typography",
     Modal |-> "@/components/ui-lib/Modal",
     Navbar |-> "@/components/ui-lib/Navbar",
     Sidebar |-> "@/components/ui-lib/Sidebar",
     SidebarItem |-> "@/components/ui-lib/Sidebar",
     BarChart |-> "@/components/ui-lib/Chart",
     LineChart |-> "@/components/ui-lib/Chart",
     PieChart |-> "@/components/ui-lib/Chart",
     Table |-> "@/components/ui-lib/Table",
     TableHeader |-> "@/components/ui-lib/Table",
     TableBody |-> "@/components/ui-lib/Table",
     TableRow |-> "@/components/ui-lib/Table",
     TableHead |-> "@/components/ui-lib/Table",
     TableCell |-> "@/components/ui-lib/Table",
     TableFooter |-> "@/components/ui-lib/Table",
     TableCaption |-> "@/components/ui-lib/Table"]

HANDLER_PROPS == {"onClick", "onClose", "onChange"}

RAW_VALUE_PROPS ==
    {"isLoading", "isOpen", "isActive", "disabled", "columns", "level",
     "elevation", "collapsible", "defaultCollapsed", "hasDropdown", "responsive"}

ICON_CONFLICTS ==
    [BarChart |-> "BarChartIcon", Table |-> "TableIcon", Card |-> "CardIcon",
     Input |-> "InputIcon"]

\* Array.prototype.sort on names: the names the model uses, in the order of
\* their UTF-16 code units.
SortOrder ==
    <<"BarChart", "Box", "Button", "Card", "CardContent", "CardDescription",
      "CardFooter", "CardHeader", "CardTitle", "Container", "Grid", "Heading",
      "Home", "Input", "LineChart", "Menu", "Modal", "Navbar", "PieChart",
      "Sidebar", "SidebarItem", "Stack", "Table", "TableBody", "TableCaption",
      "TableCell", "TableFooter", "TableHead", "TableHeader", "TableRow",
      "Text">>

Range(s) == {s[i] : i \in DOMAIN s}

\* Array.from(set).sort()
Sorted(S) == LET In(n) == n \in S IN SelectSeq(SortOrder, In)

\* Set.add on a Set kept in insertion order.
SetAdd(s, x) == IF x \in Range(s) THEN s ELSE Append(s, x)

\* `value` is truthy.
Truthy(v) == v \notin {"#false", "#0", "", JSUndefined}

\* String.prototype.includes("onClose") on the texts of the model.
IncludesOnClose(s) == s \in {"onClose", "Press onClose to leave", "buttonClose"}

\* The state the generator needs: lines 93-107.
RECURSIVE scanForState(_, _)
scanForState(nodes, i) ==
    IF i > Len(nodes) THEN [modal |-> FALSE, sidebar |-> FALSE, nav |-> FALSE]
    ELSE IF nodes[i].kind = "text" THEN scanForState(nodes, i + 1)
    ELSE LET Has(node, key) == key \in DOMAIN node.props /\ Truthy(node.props[key])
             Or(node, below, rest) ==
                 [modal |-> node.type = "Modal" \/ below.modal \/ rest.modal,
                  sidebar |-> \/ node.type = "Sidebar" /\ Has(node, "collapsible")
                              \/ below.sidebar \/ rest.sidebar,
                  nav |-> \/ node.type = "Navbar" /\ Has(node, "hasDropdown")
                          \/ below.nav \/ rest.nav]
         IN Or(nodes[i], scanForState(nodes[i].children, 1),
               scanForState(nodes, i + 1))

\* `node.type` of undefined: a TypeError.  A hole at any depth is reached by
\* scanForState, which looks into nodes of every type.
RECURSIVE HasHole(_)
HasHole(nodes) ==
    \E i \in DOMAIN nodes :
        \/ nodes[i].kind = "undef"
        \/ nodes[i].kind = "node" /\ HasHole(nodes[i].children)

\* Lines 109-121.
stateDeclarations(needs) ==
    (IF needs.modal THEN <<"modalOpen">> ELSE <<>>)
    \o (IF needs.sidebar THEN <<"sidebarCollapsed">> ELSE <<>>)
    \o (IF needs.nav THEN <<"dropdownOpen">> ELSE <<>>)

handlerDeclarations(needs) ==
    (IF needs.modal THEN <<"handleOpenModal", "handleCloseModal">> ELSE <<>>)
    \o (IF needs.sidebar THEN <<"toggleSidebar">> ELSE <<>>)
    \o (IF needs.nav THEN <<"toggleDropdown">> ELSE <<>>)

\* mapHandler: the reference of a known handler name, a no-op otherwise.
mapHandler(key, value) ==
    LET handlerMap ==
            [openModal |-> "handleOpenModal", closeModal |-> "handleCloseModal",
             toggleSidebar |-> "toggleSidebar", toggleDropdown |-> "toggleDropdown"]
    IN IF value \in DOMAIN handlerMap THEN handlerMap[value] ELSE "() => {}"

validateAndClean(node) ==
    LET Go(result) ==
            IF result.valid
            THEN [sanitized |-> result.sanitized, errors |-> <<>>, warnings |-> <<>>]
            ELSE [sanitized |-> node.props, errors |-> result.errors,
                  warnings |-> <<>>]
    IN Go(validateNodeProps(node.type, node.props))

\* One JSX attribute: `key={text}` (form "expr"), `key="text"` ("string"),
\* `key` alone ("bare") or `key={<text className=... />}` ("element").
Attr(f, t) == [form |-> f, text |-> t]

\* Lines 149-175: the parts pushed for the props, by key.  A prop gets no
\* part when it is `children` or its value is of no type the loop knows.
propParts(sanitized) ==
    LET Emits(key, value) ==
            /\ key # "children"
            /\ \/ key \in HANDLER_PROPS
               \/ key \in RAW_VALUE_PROPS
               \/ typeof(value) \in {"string", "boolean", "number"}
               \/ key = "data" /\ value = ChartData
        PropPart(key, value) ==
            IF key \in HANDLER_PROPS THEN Attr("expr", mapHandler(key, value))
            ELSE IF key \in {"icon", "logo"} /\ typeof(value) = "string"
            THEN Attr("element", IF value \in DOMAIN ICON_CONFLICTS
                                 THEN ICON_CONFLICTS[value] ELSE value)
            ELSE IF key = "data" /\ value = ChartData THEN Attr("expr", value)
            ELSE IF key \in RAW_VALUE_PROPS THEN Attr("expr", value)
            ELSE IF typeof(value) = "string" THEN Attr("string", value)
            ELSE IF typeof(value) = "boolean"
            THEN (IF value = "#true" THEN Attr("bare", "") ELSE Attr("expr", value))
            ELSE Attr("expr", value)
    IN [key \in {k \in DOMAIN sanitized : Emits(k, sanitized[k])}
           |-> PropPart(key, sanitized[key])]

\* Lines 183-186 on the props string of a Modal: the isOpen attribute, when
\* there is one, is rewritten; onClose is added unless the characters
\* "onClose" occur somewhere in the string.  (No text of the model holds the
\* characters "isOpen={", so the replace can only hit the attribute.)
ModalOverride(parts) ==
    LET Replaced(p) ==
            [key \in DOMAIN p |->
                IF key = "isOpen" THEN Attr("expr", "modalOpen") ELSE p[key]]
        Included(p) ==
            \E key \in DOMAIN p : IncludesOnClose(key) \/ IncludesOnClose(p[key].text)
        Closed(p) ==
            IF Included(p) THEN p
            ELSE [key \in DOMAIN p \cup {"onClose"} |->
                     IF key = "onClose" THEN Attr("expr", "handleCloseModal")
                     ELSE p[key]]
    IN Closed(Replaced(parts))
\* The JSX the generator writes, kept as a tree.
Element(t, a, c) == [kind |-> "element", tag |-> t, attrs |-> a, children |-> c]

TextLine(s) == [kind |-> "text", text |-> s]

\* {/* Unknown component: type */}
Placeholder(t) == [kind |-> "comment", text |-> t]

NoAttrs == [k \in {} |-> Attr("", "")]

\* Lines 86-89: the arrays and Sets a call starts with.
NewAccumulators ==
    [errors |-> <<>>, warnings |-> <<>>, usedComponents |-> <<>>, usedIcons |-> <<>>]

\* Lines 134-147: what rendering a node of a known type records.
Record(acc, node, clean) ==
    LET Icon(used, key) ==
            IF /\ key \in DOMAIN clean.sanitized
               /\ Truthy(clean.sanitized[key])
               /\ typeof(clean.sanitized[key]) = "string"
            THEN SetAdd(used, clean.sanitized[key]) ELSE used
    IN [errors |-> acc.errors \o clean.errors,
        warnings |-> acc.warnings \o clean.warnings,
        usedComponents |-> SetAdd(acc.usedComponents, node.type),
        usedIcons |-> Icon(Icon(acc.usedIcons, "icon"), "logo")]

\* Lines 149-187: the attributes of the element.
finalProps(node, sanitized) ==
    IF node.type = "Modal" THEN ModalOverride(propParts(sanitized))
    ELSE propParts(sanitized)

\* Lines 193-195: the string child taken from the props.
childFromProps(sanitized) ==
    IF /\ "children" \in DOMAIN sanitized
       /\ Truthy(sanitized.children)
       /\ typeof(sanitized.children) = "string"
    THEN <<TextLine(sanitized.children)>> ELSE <<>>

\* Lines 129-132 without the push: the placeholder alone.
renderUnknownSilently(acc, node) == [acc |-> acc, jsx |-> Placeholder(node.type)]

\* Lines 129-132: a type outside the registry gives an error and the
\* placeholder; the node's children are not looked at.
renderUnknown(acc, node) ==
    [acc |-> [acc EXCEPT !.errors =
                 Append(@, Issue("unknown_component", node.type, {}))],
     jsx |-> Placeholder(node.type)]

\* renderNode: the accumulators after the node, and its JSX.
RECURSIVE renderNode(_, _)
renderNode(acc, node) ==
    IF node.kind = "text" THEN [acc |-> acc, jsx |-> TextLine(node.text)]
    ELSE IF node.type \notin ALLOWED_COMPONENT_TYPES THEN renderUnknown(acc, node)
    ELSE LET RECURSIVE Each(_, _, _)
             Each(a, children, i) ==
                 IF i > Len(children) THEN [acc |-> a, jsx |-> <<>>]
                 ELSE LET Rest(one) ==
                              LET Join(rest) ==
                                      [acc |-> rest.acc, jsx |-> <<one.jsx>> \o rest.jsx]
                              IN Join(Each(one.acc, children, i + 1))
                      IN Rest(renderNode(a, children[i]))
             Go(clean) ==
                 LET Close(below) ==
                         [acc |-> below.acc,
                          jsx |-> Element(node.type, finalProps(node, clean.sanitized),
                                          childFromProps(clean.sanitized) \o below.jsx)]
                 IN Close(Each(Record(acc, node, clean), node.children, 1))
         IN Go(validateAndClean(node))

\* Line 238: ast.components.map(renderNode)
RECURSIVE renderAll(_, _, _)
renderAll(acc, components, i) ==
    IF i > Len(components) THEN [acc |-> acc, jsx |-> <<>>]
    ELSE LET Rest(one) ==
                 LET Join(rest) == [acc |-> rest.acc, jsx |-> <<one.jsx>> \o rest.jsx]
                 IN Join(renderAll(one.acc, components, i + 1))
         IN Rest(renderNode(acc, components[i]))

\* One name of an import line: `name` or `name as alias`.
Imported(n, a) == [name |-> n, alias |-> a]

ImportLine(ns, p) == [names |-> ns, from |-> p]

Plain(names) == [i \in DOMAIN names |-> Imported(names[i], names[i])]

\* Lines 290-297 without the Container: the groups of the used components.
finalImportGroupsUsedOnly(usedComponents) ==
    LET comps == SelectSeq(usedComponents, LAMBDA c : c \in DOMAIN IMPORT_MAP)
        RECURSIVE Paths(_, _)
        Paths(i, seen) ==
            IF i > Len(comps) THEN seen
            ELSE Paths(i + 1, SetAdd(seen, IMPORT_MAP[comps[i]]))
        paths == Paths(1, <<>>)
    IN [j \in DOMAIN paths |->
           ImportLine(Plain(Sorted({c \in Range(comps) : IMPORT_MAP[c] = paths[j]})),
                      paths[j])]

\* Lines 290-306: the import groups of [...usedComponents, "Container"], in
\* the order their paths first occur, the names of each sorted.
finalImportGroups(usedComponents) ==
    LET Known(c) == c \in DOMAIN IMPORT_MAP
        RECURSIVE Paths(_, _, _)
        Paths(comps, i, seen) ==
            IF i > Len(comps) THEN seen
            ELSE Paths(comps, i + 1, SetAdd(seen, IMPORT_MAP[comps[i]]))
        Lines(comps, paths) ==
            [j \in DOMAIN paths |->
                ImportLine(Plain(Sorted({c \in Range(comps) : IMPORT_MAP[c] = paths[j]})),
                           paths[j])]
        Go(comps) == Lines(comps, Paths(comps, 1, <<>>))
    IN Go(SelectSeq(usedComponents \o <<"Container">>, Known))

\* Lines 307-316: the icon import.
iconImportLines(usedIcons) ==
    IF usedIcons = <<>> THEN <<>>
    ELSE LET Alias(sorted) ==
                 [i \in DOMAIN sorted |->
                     Imported(sorted[i],
                              IF sorted[i] \in DOMAIN ICON_CONFLICTS
                              THEN ICON_CONFLICTS[sorted[i]] ELSE sorted[i])]
         IN <<ImportLine(Alias(Sorted(Range(usedIcons))), "lucide-react")>>

\* Lines 299-336: the module text, kept in its parts.
finalCode(needs, out) ==
    [imports |-> (IF stateDeclarations(needs) # <<>>
                  THEN <<ImportLine(Plain(<<"useState">>), "react")>> ELSE <<>>)
                 \o finalImportGroups(out.acc.usedComponents)
                 \o iconImportLines(out.acc.usedIcons),
     state |-> stateDeclarations(needs),
     handlers |-> handlerDeclarations(needs),
     root |-> Element("Container", NoAttrs, out.jsx)]

NoCode == [imports |-> <<>>, state |-> <<>>, handlers |-> <<>>,
           root |-> Placeholder("")]

\* The generator whose arrays and Sets outlive the call: it goes on from what
\* the call before left in them.
generateCodeFromASTSharedState(ast) ==
    IF HasHole(ast.components)
    THEN [threw |-> TRUE, code |-> NoCode, errors |-> <<>>, warnings |-> <<>>,
          usedComponents |-> <<>>, usedIcons |-> <<>>]
    ELSE LET left == [errors |-> genResult.errors, warnings |-> genResult.warnings,
                      usedComponents |-> genResult.usedComponents,
                      usedIcons |-> genResult.usedIcons]
             out == renderAll(left, ast.components, 1)
         IN [threw |-> FALSE,
             code |-> finalCode(scanForState(ast.components, 1), out),
             errors |-> out.acc.errors, warnings |-> out.acc.warnings,
             usedComponents |-> out.acc.usedComponents,
             usedIcons |-> out.acc.usedIcons]

\* generateCodeFromAST: the GeneratorResult, or the TypeError of a hole.
generateCodeFromAST(ast) ==
    IF HasHole(ast.components)
    THEN [threw |-> TRUE, code |-> NoCode, errors |-> <<>>, warnings |-> <<>>,
          usedComponents |-> <<>>, usedIcons |-> <<>>]
    ELSE LET Go(out) ==
                 [threw |-> FALSE,
                  code |-> finalCode(scanForState(ast.components, 1), out),
                  errors |-> out.acc.errors, warnings |-> out.acc.warnings,
                  usedComponents |-> out.acc.usedComponents,
                  usedIcons |-> out.acc.usedIcons]
         IN Go(renderAll(NewAccumulators, ast.components, 1))

\* --------------------------------------------- the inputs of the generator

ModalPlain == Node("Modal", NoProps, <<TextHi>>)

ModalWired ==
    Node("Modal", [isOpen |-> "#true", onClose |-> "closeModal", title |-> "Hi"], <<>>)

ModalDismiss == Node("Modal", [onClose |-> "dismiss"], <<>>)

ModalTitled == Node("Modal", [title |-> "Press onClose to leave"], <<>>)

ModalBadVariant == Node("Modal", [variant |-> "huge"], <<>>)

ModalClosedBadVariant == Node("Modal", [isOpen |-> "#false", variant |-> "huge"], <<>>)

TextColored == Node("Text", [children |-> "Hi", color |-> "red"], <<>>)

OpenButton == Node("Button", [onClick |-> "openModal"], <<Leaf("Open")>>)

NavbarNode == Node("Navbar", [logo |-> "Home", hasDropdown |-> "#true"], <<>>)

SidebarNode ==
    Node("Sidebar", [collapsible |-> "#true"],
         <<Node("SidebarItem", [icon |-> "Table", children |-> "Rows"], <<>>),
           Node("SidebarItem", [icon |-> "Menu"], <<>>)>>)

Carousel == Node("Carousel", NoProps, <<TextHi>>)

NavbarContainerLogo == Node("Navbar", [logo |-> "Container"], <<>>)

ContainerNode == Node("Container", NoProps, <<TextA>>)

GridFive == Node("Grid", [columns |-> "#5"], <<>>)

TableNode == Node("Table", NoProps, <<Node("TableRow", NoProps, <<>>)>>)

GenNodes ==
    {TextHi, ButtonNode, CardNode, StackNode, ModalPlain, ModalWired,
     ModalDismiss, ModalTitled, ModalBadVariant, ModalClosedBadVariant,
     TextColored, OpenButton, NavbarNode, SidebarNode, Carousel, ContainerNode,
     GridFive, TableNode}

Doc(components) == [layout |-> "Stack", theme |-> "light", components |-> components]

\* The documents a planner output describes: one node, one node inside a
\* Stack, two nodes side by side.
GenDocuments ==
    {createEmptyAST}
    \cup {Doc(<<n>>) : n \in GenNodes}
    \cup {Doc(<<Node("Stack", NoProps, <<n>>)>>) : n \in GenNodes}
    \cup {Doc(<<n, m>>) : n \in {OpenButton, SidebarNode, TextColored, Carousel},
                          m \in {ModalPlain, NavbarNode, ContainerNode, ModalTitled,
                                 NavbarContainerLogo}}

\* A planner output, as far as step 2 of the route reads it.  hasAST: the
\* request carries a currentAST.
PlannerOutput(t, has, d, ps) ==
    [modificationType |-> t, hasAST |-> has, doc |-> d, patches |-> ps]

Plans ==
    {PlannerOutput("new", FALSE, d, <<>>) : d \in GenDocuments}
    \cup {PlannerOutput("patch", TRUE, d, <<p>>) : d \in Documents, p \in Patches}
    \cup {PlannerOutput("patch", TRUE, createEmptyAST,
                        <<Patch("add", PathRoot, n, NotGiven)>>) : n \in GenNodes}
    \cup {PlannerOutput("patch", FALSE, createEmptyAST,
                        <<Patch("add", PathRoot, TextHi, NotGiven)>>)}

NotValidated == [ran |-> FALSE, valid |-> FALSE, errors |-> <<>>, warnings |-> <<>>]

NoResult ==
    [threw |-> FALSE, code |-> NoCode, errors |-> <<>>, warnings |-> <<>>,
     usedComponents |-> <<>>, usedIcons |-> <<>>]

NothingRemembered ==
    [set |-> FALSE, between |-> FALSE, doc |-> createEmptyAST, result |-> NoResult]

Remembered(d, r) == [set |-> TRUE, between |-> FALSE, doc |-> d, result |-> r]

\* ======================================================================
\* Part 3: the sandbox (lib/engine/sandbox) and the live preview
\* (components/LivePreview).
\*
\* Representation
\*  - a source text is a sequence of pieces, each a statement or a fragment
\*    of markup; a regular expression matches a text when it matches inside
\*    one of its pieces, and which piece it matches is given by a table;
\*  - a regular expression with the g flag carries its lastIndex from one
\*    test to the next: the position (in pieces) after the last match;
\*  - running the constructed function is a walk over its pieces, one step
\*    per statement and one per turn of a loop; the clock advances by one
\*    with every turn of a loop, and the time limit is TimeoutTicks turns.
\* ======================================================================

\* ------------------------------------------------------ the source pieces

Benign == "x = 1;"

ReturnOne == "return 1;"

EvalCall == "eval(1);"

\* An inline handler in markup, which the sanitizer removes.
InlineHandler == "onclick=\"eval(1)\""

WhileTrue == "while(true){}"

\* Loops that never end and that no pattern of the deny list matches: one
\* with a body in braces, one without.
WhileBraces == "while(1>0){}"

WhileBare == "while(1>0);"

ThrowBoom == "throw new Error(\"boom\");"

\* Text neither the Function constructor nor the transpiler can parse.
SyntaxError == "}{"

\* A comment of 100001 characters.
Filler == "/* ... */"

\* The module the generator writes: a component that renders, and one that
\* throws when rendered.
GoodComponent == "export default function GeneratedUI() { return null }"

BadComponent == "export default function GeneratedUI() { throw new Error(\"render\") }"

\* What injectLoopGuards makes of the two loops with a body in braces: the
\* deadline check at the head of the body.
GuardedWhileTrue == "while(true){ if (Date.now() > __deadline__) throw }"

GuardedWhileBraces == "while(1>0){ if (Date.now() > __deadline__) throw }"

Length(piece) == IF piece = Filler THEN 100001 ELSE 20

RECURSIVE CodeLength(_, _)
CodeLength(code, i) ==
    IF i > Len(code) THEN 0 ELSE Length(code[i]) + CodeLength(code, i + 1)

\* --------------------------------------------------------- the deny list

\* DANGEROUS_PATTERNS and LOOP_PATTERNS, each pattern named by what it looks
\* for, in the order of the arrays.
DANGEROUS_PATTERNS ==
    <<"eval(", "new Function(", "setTimeout('", "setInterval('", "document.",
      "window.", "globalThis.", "process.", "require(", "import(", "__proto__",
      "constructor[", "Object.getPrototypeOf", "Reflect", "Proxy">>

LOOP_PATTERNS == <<"while(true)", "while(1)", "for(;;) spaced", "for(;;)">>

InnerHTML == "dangerouslySetInnerHTML={{ __html: x }}"

\* The pieces inside which the pattern matches.
MatchesInside(pattern, piece) ==
    \/ pattern = "eval(" /\ piece \in {EvalCall, InlineHandler}
    \/ pattern = "while(true)" /\ piece = WhileTrue
    \/ pattern = "dangerouslySetInnerHTML" /\ piece = InnerHTML
    \/ pattern = "on*=" /\ piece = InlineHandler

\* pattern.test(code) of a g-flagged regular expression whose lastIndex is
\* `from`: the search starts there; a match leaves lastIndex after it, no
\* match leaves 0.
RegexTest(pattern, code, from) ==
    LET hits == {i \in DOMAIN code : i > from /\ MatchesInside(pattern, code[i])}
    IN IF hits = {} THEN [found |-> FALSE, lastIndex |-> 0]
       ELSE [found |-> TRUE,
             lastIndex |-> CHOOSE i \in hits : \A j \in hits : i <= j]

\* analyzeCode without lines 93 and 101: each test goes on from where the
\* last test of the pattern stopped.
analyzeCodeNoReset(code, indexes) ==
    LET all == DANGEROUS_PATTERNS \o LOOP_PATTERNS
        Test(i) == RegexTest(all[i], code, indexes[all[i]])
        Found(i) == Test(i).found
        hit == SelectSeq([i \in DOMAIN all |-> i], Found)
    IN [safe |-> hit = <<>>,
        issues |-> [k \in DOMAIN hit |-> all[hit[k]]],
        lastIndex |-> [p \in Range(all) |->
                          LET i == CHOOSE n \in DOMAIN all : all[n] = p
                          IN Test(i).lastIndex]]

\* analyzeCode: every pattern is reset and tested; one issue, naming the
\* pattern, for each that matches.  Also returned: the lastIndex each
\* pattern is left with.
analyzeCode(code, indexes) ==
    LET all == DANGEROUS_PATTERNS \o LOOP_PATTERNS
        Test(i) == RegexTest(all[i], code, 0)
        Found(i) == Test(i).found
        Go(hit) ==
            [safe |-> hit = <<>>,
             issues |-> [k \in DOMAIN hit |-> all[hit[k]]],
             lastIndex |-> [p \in Range(all) |->
                               LET i == CHOOSE n \in DOMAIN all : all[n] = p
                               IN Test(i).lastIndex]]
    IN Go(SelectSeq([i \in DOMAIN all |-> i], Found))

\* sanitizeGeneratedCode: the inline handlers are cut out.  (dangerously-
\* SetInnerHTML, script elements and javascript: occur in no source of the
\* model.)
sanitizeGeneratedCode(code) ==
    LET Kept(piece) == piece # InlineHandler IN SelectSeq(code, Kept)

\* injectLoopGuards that leaves the code as it is.
injectLoopGuardsNothing(code, timeoutMs) == code

\* injectLoopGuards: the deadline check goes after the opening brace of
\* every while (...) {, for (...) { and do {.
injectLoopGuards(code, timeoutMs) ==
    [i \in DOMAIN code |->
        IF code[i] = WhileTrue THEN GuardedWhileTrue
        ELSE IF code[i] = WhileBraces THEN GuardedWhileBraces
        ELSE code[i]]

\* ------------------------------------------------- running the function

\* An error message: its text and, for a rejection by the analysis, the
\* issues joined into it.
Rejection(text, issues) == [text |-> text, issues |-> issues]

Message(text) == Rejection(text, <<>>)

\* No message: the null of the preview's error state, the absent error of a
\* SandboxResult.
NoMessage == Message("")

\* What one statement does when control reaches it: "next" (falls through),
\* "return", "throw", "guard" (a loop whose body starts with the deadline
\* check) or "loop" (a loop without one).
Effect(piece) ==
    CASE piece \in {Benign, InlineHandler, Filler} -> [does |-> "next"]
      [] piece = ReturnOne -> [does |-> "return", value |-> "1"]
      [] piece \in {GoodComponent, BadComponent} ->
            [does |-> "return", value |-> piece]
      [] piece = ThrowBoom -> [does |-> "throw", message |-> Message("boom")]
      \* eval is shadowed by a parameter whose value is undefined
      [] piece = EvalCall ->
            [does |-> "throw", message |-> Message("eval is not a function")]
      [] piece \in {GuardedWhileTrue, GuardedWhileBraces} -> [does |-> "guard"]
      [] piece \in {WhileTrue, WhileBraces, WhileBare} -> [does |-> "loop"]
      [] OTHER -> [does |-> "throw", message |-> Message("SyntaxError")]

TimeoutMessage == Message("Execution timeout: loop exceeded time limit")

\* The Function constructor of executeSandboxed takes the text as a function
\* body, where an export declaration is a syntax error; the preview's
\* transpiler takes it as a module.
Parses(path, text) ==
    \A i \in DOMAIN text :
        /\ text[i] # SyntaxError
        /\ path = "sandbox" => text[i] \notin {GoodComponent, BadComponent}

\* ------------------------------------------------------------ the results

null == "null"

NoSandboxResult == [success |-> "none", result |-> null, error |-> NoMessage]

NoPreview == [Component |-> null, error |-> NoMessage, hasError |-> FALSE]

\* What the component shows: the error panel, the placeholder, the error
\* boundary's panel, or the generated component.
View(pv) ==
    IF pv.error # NoMessage THEN "error"
    ELSE IF pv.Component = null THEN "placeholder"
    ELSE IF pv.hasError THEN "runtime error"
    ELSE "component"

\* setError(message): the error panel replaces the boundary, whose state is
\* lost with it.
setError(pv, message) ==
    [Component |-> pv.Component, error |-> message, hasError |-> FALSE]

\* A run that ends without an exception: the returned record, or
\* setComponent and setError(null).
Succeeds(path, value, pv) ==
    [stage |-> "done",
     result |-> IF path = "sandbox"
                THEN [success |-> "true", result |-> value, error |-> NoMessage]
                ELSE NoSandboxResult,
     preview |-> IF path = "preview"
                 THEN [Component |-> value, error |-> NoMessage,
                       hasError |-> pv.hasError]
                 ELSE pv]

\* A run that ends with a failure the function itself reports.
Fails(path, message, pv) ==
    [stage |-> "done",
     result |-> IF path = "sandbox"
                THEN [success |-> "false", result |-> null, error |-> message]
                ELSE NoSandboxResult,
     preview |-> IF path = "preview" THEN setError(pv, message) ELSE pv]

\* A try block without its catch clause: the exception leaves the function.
catchNothing(path, message, pv) ==
    [stage |-> "uncaught", result |-> NoSandboxResult, preview |-> pv]

\* The catch clause of executeSandboxed and of the preview's effect.
catch(path, message, pv) == Fails(path, message, pv)

\* ---------------------------------------------------------- the sources

MaxPieces == 2

\* The scaled time limit, and the time after which the model stops watching
\* a loop that goes on.
TimeoutTicks == 1

MaxNow == 3

maxCodeLength == 100000

SandboxPieces ==
    {Benign, ReturnOne, EvalCall, WhileTrue, WhileBraces, WhileBare, ThrowBoom,
     SyntaxError, Filler}

PreviewPieces ==
    {Benign, EvalCall, InlineHandler, WhileBraces, ThrowBoom, SyntaxError,
     GoodComponent, BadComponent}

SourcesOf(pieces) == UNION {[1 .. n -> pieces] : n \in 0 .. MaxPieces}

AllPatterns == Range(DANGEROUS_PATTERNS \o LOOP_PATTERNS)

\* ------------------------------------------------------ the state machine of part 1

LoopState == [current |-> current, errors |-> errors, appliedCount |-> appliedCount]

PatchInit ==
    /\ callerDoc \in Documents
    /\ before = callerDoc
    /\ current = Handle(TRUE, callerDoc)
    /\ errors = <<>>
    /\ appliedCount = 0
    /\ patches = <<>>
    /\ pc = "idle"
    /\ prev = [doc |-> callerDoc, errors |-> <<>>, appliedCount |-> 0]
    /\ last = NoPatch
    /\ origDoc = callerDoc
    /\ allPatches = <<>>
    /\ calls = 0

\* The caller calls applyPatches on the document it holds: the one it started
\* with, or the one the call before returned.  Lines 22-24.
Call ==
    /\ pc \in {"idle", "returned"}
    /\ calls < MaxCalls
    /\ LET st == LoopInit(Handle(TRUE, current.doc)) IN
       /\ callerDoc' = current.doc
       /\ before' = current.doc
       /\ current' = st.current
       /\ errors' = st.errors
       /\ appliedCount' = st.appliedCount
       /\ prev' = [doc |-> current.doc, errors |-> st.errors,
                   appliedCount |-> st.appliedCount]
    /\ patches' = <<>>
    /\ last' = NoPatch
    /\ pc' = "loop"
    /\ calls' = calls + 1
    /\ UNCHANGED <<origDoc, allPatches>>
    /\ UNCHANGED nonPatchVars

\* One iteration of the for loop on the next patch of the list.  Lines 26-34.
Iterate ==
    /\ pc = "loop"
    /\ Len(allPatches) < MaxPatches
    /\ \E patch \in Patches :
       \E st \in {LoopBody(LoopState, patch)} :
          /\ current' = st.current
          /\ errors' = st.errors
          /\ appliedCount' = st.appliedCount
          /\ callerDoc' = IF st.current.shared THEN st.current.doc ELSE callerDoc
          /\ last' = patch
          /\ patches' = Append(patches, patch)
          /\ allPatches' = Append(allPatches, patch)
    /\ prev' = [doc |-> current.doc, errors |-> errors, appliedCount |-> appliedCount]
    /\ UNCHANGED <<before, pc, origDoc, calls>>
    /\ UNCHANGED nonPatchVars

\* The list is exhausted: the PatchResult is returned.  Lines 36-41.
ReturnResult ==
    /\ pc = "loop"
    /\ pc' = "returned"
    /\ UNCHANGED <<callerDoc, before, current, errors, appliedCount, patches,
                   prev, last, origDoc, allPatches, calls>>
    /\ UNCHANGED nonPatchVars

\* The caller edits the returned document in place (it flips the theme and
\* drops the last component).
CallerEdit ==
    /\ pc = "returned"
    /\ LET edited == [current.doc EXCEPT
                         !.theme = IF @ = "light" THEN "dark" ELSE "light",
                         !.components = SubSeq(@, 1, Len(@) - 1)]
       IN /\ current' = Handle(current.shared, edited)
          /\ callerDoc' = IF current.shared THEN edited ELSE callerDoc
    /\ pc' = "edited"
    /\ UNCHANGED <<before, errors, appliedCount, patches, prev, last, origDoc,
                   allPatches, calls>>
    /\ UNCHANGED nonPatchVars

PatchNext == Call \/ Iterate \/ ReturnResult \/ CallerEdit

\* ------------------------------------- the generator step of the route

\* The documents whose generator calls are remembered for comparison.
Watched ==
    {Doc(<<ModalPlain>>), Doc(<<SidebarNode, NavbarNode>>), Doc(<<TextColored>>),
     Doc(<<Carousel>>), Doc(<<TextHi>>)}

GenInit ==
    /\ plan = PlannerOutput("new", FALSE, createEmptyAST, <<>>)
    /\ finalAST = createEmptyAST
    /\ astValidation = NotValidated
    /\ genResult = NoResult
    /\ codeFrom = "none"
    /\ rpc = "idle"
    /\ remembered = NothingRemembered

\* Lines 78-116: the planner's output is parsed; step 2 starts.
PlannerComplete ==
    /\ rpc = "idle"
    /\ plan' \in Plans
    /\ astValidation' = NotValidated
    /\ codeFrom' = "none"
    /\ rpc' = "planned"
    /\ UNCHANGED <<finalAST, genResult, remembered>>
    /\ UNCHANGED nonGenVars

\* Lines 121-136: the patch branch up to finalAST = patchResult.ast.
PatchBranch ==
    /\ rpc = "planned"
    /\ plan.modificationType = "patch" /\ plan.hasAST
    /\ \E patchResult \in {applyPatches(Handle(TRUE, plan.doc), plan.patches)} :
          finalAST' = patchResult.ast.doc
    /\ rpc' = "lowering"
    /\ UNCHANGED <<plan, astValidation, genResult, codeFrom, remembered>>
    /\ UNCHANGED nonGenVars

\* Lines 147-163: the new branch up to the validation; an invalid document
\* sends a warning step and goes on.
NewBranch ==
    /\ rpc = "planned"
    /\ plan.modificationType = "new"
    /\ finalAST' = plan.doc
    /\ astValidation' = validateUIAST(plan.doc)
    /\ rpc' = "lowering"
    /\ UNCHANGED <<plan, genResult, codeFrom, remembered>>
    /\ UNCHANGED nonGenVars

\* Lines 137-146 and 165-177: generateCodeFromAST(finalAST); the new branch
\* asks the model for the code when the generator reported errors.  A
\* TypeError leaves for the catch of line 229.
Lower ==
    /\ rpc = "lowering"
    /\ \E r \in {generateCodeFromAST(finalAST)} :
          /\ genResult' = r
          /\ rpc' = IF r.threw THEN "failed" ELSE "lowered"
          /\ codeFrom' = IF r.threw THEN "none"
                         ELSE IF plan.modificationType = "new" /\ r.errors # <<>>
                         THEN "llm" ELSE "generator"
          /\ remembered' =
                IF remembered.set /\ finalAST # remembered.doc
                THEN [remembered EXCEPT !.between = TRUE]
                ELSE remembered
    /\ UNCHANGED <<plan, finalAST, astValidation>>
    /\ UNCHANGED nonGenVars

\* Lines 178-188: neither branch; the code comes from the model.
Fallback ==
    /\ rpc = "planned"
    /\ ~(plan.modificationType = "patch" /\ plan.hasAST)
    /\ plan.modificationType # "new"
    /\ finalAST' = createEmptyAST
    /\ codeFrom' = "llm"
    /\ rpc' = "coded"
    /\ UNCHANGED <<plan, astValidation, genResult, remembered>>
    /\ UNCHANGED nonGenVars

\* Lines 190-228: the code is checked and sent, the request is done.  (The
\* call of the generator on a watched document may be remembered.)
Complete ==
    /\ rpc \in {"lowered", "coded"}
    /\ rpc' = "idle"
    /\ \/ UNCHANGED remembered
       \/ /\ rpc = "lowered"
          /\ finalAST \in Watched
          /\ remembered' = Remembered(finalAST, genResult)
    /\ UNCHANGED <<plan, finalAST, astValidation, genResult, codeFrom>>
    /\ UNCHANGED nonGenVars

\* Lines 229-235: the error event.
StreamError ==
    /\ rpc = "failed"
    /\ rpc' = "idle"
    /\ UNCHANGED <<plan, finalAST, astValidation, genResult, codeFrom, remembered>>
    /\ UNCHANGED nonGenVars

GenNext ==
    PlannerComplete \/ PatchBranch \/ NewBranch \/ Lower \/ Fallback \/ Complete
    \/ StreamError

\* ------------------------------------------------------------------ Init

SandboxInit ==
    /\ sbPath = "none"
    /\ sbCode = <<>>
    /\ sbText = <<>>
    /\ sbStage = "idle"
    /\ sbIp = 0
    /\ sbNow = 0
    /\ sbDeadline = 0
    /\ sbLastIndex = [p \in AllPatterns |-> 0]
    /\ sbResult = NoSandboxResult
    /\ sbPreview = NoPreview
    /\ sbConstructed = FALSE
    /\ sbFailure = "none"
    /\ sbStages = <<>>

\* --------------------------------------------------------------- actions

\* What every ending of a run writes.
Ends(end, failure) ==
    /\ sbStage' = end.stage
    /\ sbResult' = end.result
    /\ sbPreview' = end.preview
    /\ sbFailure' = failure

\* executeSandboxed is called (lines 136-142).
ExecuteSandboxed ==
    /\ sbStage = "idle"
    /\ \E code \in SourcesOf(SandboxPieces) :
          /\ sbCode' = code
          /\ sbText' = code
    /\ sbStages' = <<"received">>
    /\ sbPath' = "sandbox"
    /\ sbStage' = "received"
    /\ sbIp' = 0
    /\ sbNow' = 0
    /\ sbDeadline' = 0
    /\ sbResult' = NoSandboxResult
    /\ sbConstructed' = FALSE
    /\ sbFailure' = "none"
    /\ UNCHANGED <<sbLastIndex, sbPreview>>
    /\ UNCHANGED nonSandboxVars

\* The length check (lines 144-152).
LengthCheck ==
    /\ sbStage = "received"
    /\ sbPath = "sandbox"
    /\ IF CodeLength(sbText, 1) > maxCodeLength
       THEN Ends(Fails(sbPath, Message("Code exceeds maximum length"), sbPreview),
                 "length")
       ELSE /\ sbStage' = "analysis"
            /\ UNCHANGED <<sbResult, sbPreview, sbFailure>>
    /\ UNCHANGED <<sbPath, sbCode, sbText, sbIp, sbNow, sbDeadline,
                   sbLastIndex, sbConstructed, sbStages>>
    /\ UNCHANGED nonSandboxVars

\* The preview's effect runs for a new code prop: nothing for an empty
\* string, else the sanitizer (part_002 lines 147-152).
PreviewEffect ==
    /\ sbStage = "idle"
    /\ \E code \in SourcesOf(PreviewPieces) :
          /\ sbCode' = code
          /\ sbText' = sanitizeGeneratedCode(code)
          /\ sbStage' = IF code = <<>> THEN "done" ELSE "analysis"
          /\ sbStages' = IF code = <<>> THEN <<"received">>
                         ELSE <<"received", "sanitized">>
    /\ sbPath' = "preview"
    /\ sbIp' = 0
    /\ sbNow' = 0
    /\ sbDeadline' = 0
    /\ sbResult' = NoSandboxResult
    /\ sbConstructed' = FALSE
    /\ sbFailure' = "none"
    /\ UNCHANGED <<sbLastIndex, sbPreview>>
    /\ UNCHANGED nonSandboxVars

\* Static analysis, and the rejection of what it finds unsafe (sandbox.ts
\* lines 154-163, part_002 lines 154-159).
StaticAnalysis ==
    /\ sbStage = "analysis"
    /\ \E analysis \in {analyzeCode(sbText, sbLastIndex)} :
          /\ sbLastIndex' = analysis.lastIndex
          /\ sbStages' = Append(sbStages, IF analysis.safe
                                          THEN "statically-analyzed safe"
                                          ELSE "statically-analyzed unsafe")
          /\ IF ~analysis.safe
             THEN Ends(Fails(sbPath,
                             Rejection(IF sbPath = "sandbox"
                                       THEN "Security violation: "
                                       ELSE "Security: ", analysis.issues),
                             sbPreview),
                       "analysis")
             ELSE /\ sbStage' = "build"
                  /\ UNCHANGED <<sbResult, sbPreview, sbFailure>>
    /\ UNCHANGED <<sbPath, sbCode, sbText, sbIp, sbNow, sbDeadline,
                   sbConstructed>>
    /\ UNCHANGED nonSandboxVars

\* The stages that making the function passes: executeSandboxed builds its
\* scope, injects the loop guards and calls the Function constructor, which
\* parses; the preview transpiles, which parses, builds its scope and calls
\* the Function constructor.  The function made is called at once.
StagesOfBuild(path, parses) ==
    IF path = "sandbox"
    THEN <<"scoped", "loop-guarded">> \o (IF parses THEN <<"executed">> ELSE <<>>)
    ELSE IF parses THEN <<"transpiled", "scoped", "executed">> ELSE <<>>

\* The function is made and its deadline set: in executeSandboxed from the
\* loop-guarded text (lines 165-181), in the preview from the transpiled
\* text (part_002 lines 161-253).
Build ==
    /\ sbStage = "build"
    /\ \E text \in {IF sbPath = "sandbox"
                    THEN injectLoopGuards(sbText, TimeoutTicks)
                    ELSE sbText} :
          /\ sbText' = text
          /\ sbStages' = sbStages \o StagesOfBuild(sbPath, Parses(sbPath, text))
          /\ IF Parses(sbPath, text)
             THEN /\ sbConstructed' = TRUE
                  /\ sbDeadline' = sbNow + TimeoutTicks
                  /\ sbIp' = 1
                  /\ sbStage' = "run"
                  /\ UNCHANGED <<sbResult, sbPreview, sbFailure>>
             ELSE /\ Ends(catch(sbPath, Message("SyntaxError"), sbPreview), "syntax")
                  /\ UNCHANGED <<sbConstructed, sbDeadline, sbIp>>
    /\ UNCHANGED <<sbPath, sbCode, sbNow, sbLastIndex>>
    /\ UNCHANGED nonSandboxVars

\* The function runs by one statement, or one turn of a loop (sandbox.ts
\* lines 182-197, part_002 lines 254-262).
Run ==
    /\ sbStage = "run"
    /\ IF sbIp > Len(sbText)
       THEN /\ Ends(Succeeds(sbPath, "undefined", sbPreview), sbFailure)
            /\ UNCHANGED <<sbIp, sbNow>>
       ELSE \E effect \in {Effect(sbText[sbIp])} :
              CASE effect.does = "next" ->
                      /\ sbIp' = sbIp + 1
                      /\ UNCHANGED <<sbStage, sbResult, sbPreview, sbFailure,
                                     sbNow>>
                [] effect.does = "return" ->
                      /\ Ends(Succeeds(sbPath, effect.value, sbPreview),
                              sbFailure)
                      /\ UNCHANGED <<sbIp, sbNow>>
                [] effect.does = "throw" ->
                      /\ Ends(catch(sbPath, effect.message, sbPreview),
                              "runtime")
                      /\ UNCHANGED <<sbIp, sbNow>>
                [] effect.does = "guard" /\ sbNow > sbDeadline ->
                      /\ Ends(catch(sbPath, TimeoutMessage, sbPreview),
                              "timeout")
                      /\ UNCHANGED <<sbIp, sbNow>>
                [] OTHER ->
                      /\ sbNow < MaxNow
                      /\ sbNow' = sbNow + 1
                      /\ UNCHANGED <<sbStage, sbResult, sbPreview, sbFailure,
                                     sbIp>>
    /\ UNCHANGED <<sbPath, sbCode, sbText, sbDeadline, sbLastIndex,
                   sbConstructed, sbStages>>
    /\ UNCHANGED nonSandboxVars

\* The generated component is about to be rendered, and throws.
RenderThrows ==
    /\ sbStage = "done"
    /\ sbPath = "preview"
    /\ View(sbPreview) = "component"
    /\ sbPreview.Component = BadComponent

\* React renders the generated component inside the error boundary; what it
\* throws, the boundary keeps (part_002 lines 297-323).
Render ==
    /\ RenderThrows
    /\ sbPreview' = [sbPreview EXCEPT !.hasError = TRUE]
    /\ sbFailure' = "render"
    /\ UNCHANGED <<sbPath, sbCode, sbText, sbStage, sbIp, sbNow, sbDeadline,
                   sbLastIndex, sbResult, sbConstructed, sbStages>>
    /\ UNCHANGED nonSandboxVars

\* The run is over: executeSandboxed has returned to its caller, the
\* preview is on screen.  The regular expressions of the module and the
\* state of the component stay.
RunEnds ==
    /\ sbStage = "done"
    /\ ~RenderThrows
    /\ sbStage' = "idle"
    /\ sbPath' = "none"
    /\ sbCode' = <<>>
    /\ sbText' = <<>>
    /\ sbIp' = 0
    /\ sbNow' = 0
    /\ sbDeadline' = 0
    /\ sbResult' = NoSandboxResult
    /\ sbConstructed' = FALSE
    /\ sbFailure' = "none"
    /\ sbStages' = <<>>
    /\ UNCHANGED <<sbLastIndex, sbPreview>>
    /\ UNCHANGED nonSandboxVars

SandboxNext ==
    \/ ExecuteSandboxed
    \/ LengthCheck
    \/ PreviewEffect
    \/ StaticAnalysis
    \/ Build
    \/ Run
    \/ Render
    \/ RunEnds

\* ======================================================================
\* Part 4: the rate limiter (lib/security) in front of the route.
\*
\* Time is scaled: the window is windowMs ticks of the clock and the quota
\* maxRequests calls, both small.  rlAdmitted is a history variable: every
\* admitted call of an identifier, never trimmed.
\* ======================================================================

maxRequests == 2

windowMs == 3

MaxClock == 5

Identifiers == {"10.0.0.1", "10.0.0.2"}

\* check with one list for all identifiers.
checkSharedList(requests, identifier, now) ==
    LET key == CHOOSE id \in Identifiers : TRUE
        Fresh(time) == now - time < windowMs
        Go(validRequests) ==
            IF Len(validRequests) >= maxRequests
            THEN [returns |-> FALSE, requests |-> requests]
            ELSE [returns |-> TRUE,
                  requests |-> [requests EXCEPT ![key] = Append(validRequests, now)]]
    IN Go(SelectSeq(requests[key], Fresh))

\* RateLimiter.check: what it returns and the map it leaves.
check(requests, identifier, now) ==
    LET Fresh(time) == now - time < windowMs
        Go(validRequests) ==
            IF Len(validRequests) >= maxRequests
            THEN [returns |-> FALSE, requests |-> requests]
            ELSE [returns |-> TRUE,
                  requests |-> [requests EXCEPT
                                   ![identifier] = Append(validRequests, now)]]
    IN Go(SelectSeq(requests[identifier], Fresh))

NoCall == [identifier |-> "none", now |-> 0, returns |-> FALSE, status |-> 0,
           before |-> <<>>]

RateInit ==
    /\ rlRequests = [id \in Identifiers |-> <<>>]
    /\ rlNow = 0
    /\ rlAdmitted = [id \in Identifiers |-> <<>>]
    /\ rlLast = NoCall

\* Date.now() moves on.
Tick ==
    /\ rlNow < MaxClock
    /\ rlNow' = rlNow + 1
    /\ UNCHANGED <<rlRequests, rlAdmitted, rlLast>>
    /\ UNCHANGED nonRateVars

\* POST up to the rate limit (route.ts lines 44-51): 429 when check returns
\* false, else the request goes on to the stream (200).
RateLimit ==
    /\ \E identifier \in Identifiers :
         \E verdict \in {check(rlRequests, identifier, rlNow)} :
            /\ rlRequests' = verdict.requests
            /\ rlAdmitted' =
                  IF verdict.returns
                  THEN [rlAdmitted EXCEPT ![identifier] = Append(@, rlNow)]
                  ELSE rlAdmitted
            /\ rlLast' = [identifier |-> identifier, now |-> rlNow,
                          returns |-> verdict.returns,
                          status |-> IF verdict.returns THEN 200 ELSE 429,
                          before |-> rlAdmitted[identifier]]
    /\ UNCHANGED rlNow
    /\ UNCHANGED nonRateVars

RateNext == Tick \/ RateLimit

\* ======================================================================
\* Part 5: the version history of the page (app/page).
\*
\* handleCodeUpdate is a useCallback over code, history and historyIndex;
\* the chat panel's handleSubmit calls the one it was rendered with, so a
\* request in flight holds the three values of the render it was submitted
\* in (hClosure).  handleUndo, handleRedo and jumpToVersion are made anew
\* with every render and see the current values.
\* ======================================================================

MaxVersions == 3

Codes == {"A", "B", "C"}

NoClosure == [held |-> FALSE, code |-> "", history |-> <<>>, historyIndex |-> -1]

\* handleCodeUpdate (lines 54-62), on the values of its closure.  An index i
\* of the source is position i + 1 here.
handleCodeUpdate(closure, newCode) ==
    IF newCode = closure.code THEN [updates |-> FALSE]
    ELSE LET newHistory ==
                 Append(SubSeq(closure.history, 1, closure.historyIndex + 1),
                        newCode)
         IN [updates |-> TRUE, history |-> newHistory,
             historyIndex |-> Len(newHistory) - 1, code |-> newCode]

HistoryInit ==
    /\ hCode = ""
    /\ hHistory = <<>>
    /\ hIndex = -1
    /\ hClosure = NoClosure

\* handleSubmit starts a request (part_001 lines 68-90).
Submit ==
    /\ ~hClosure.held
    /\ hClosure' = [held |-> TRUE, code |-> hCode, history |-> hHistory,
                    historyIndex |-> hIndex]
    /\ UNCHANGED <<hCode, hHistory, hIndex>>
    /\ UNCHANGED nonHistoryVars

\* The done event arrives and onCodeGenerated is called (part_001 line 143).
CodeGenerated ==
    /\ hClosure.held
    /\ \E newCode \in Codes :
         \E update \in {handleCodeUpdate(hClosure, newCode)} :
            IF update.updates
            THEN /\ Len(update.history) <= MaxVersions
                 /\ hHistory' = update.history
                 /\ hIndex' = update.historyIndex
                 /\ hCode' = update.code
            ELSE UNCHANGED <<hCode, hHistory, hIndex>>
    /\ hClosure' = NoClosure
    /\ UNCHANGED nonHistoryVars

\* handleUndo (lines 68-77).
handleUndo ==
    /\ IF hIndex > 0
       THEN /\ hIndex' = hIndex - 1
            /\ hCode' = hHistory[hIndex]
       ELSE /\ hIndex = 0
            /\ hIndex' = -1
            /\ hCode' = ""
    /\ UNCHANGED <<hHistory, hClosure>>
    /\ UNCHANGED nonHistoryVars

\* handleRedo (lines 79-85).
handleRedo ==
    /\ hIndex < Len(hHistory) - 1
    /\ hIndex' = hIndex + 1
    /\ hCode' = hHistory[hIndex + 2]
    /\ UNCHANGED <<hHistory, hClosure>>
    /\ UNCHANGED nonHistoryVars

\* jumpToVersion (lines 87-90), from a button of the timeline.
jumpToVersion ==
    /\ \E idx \in 0 .. Len(hHistory) - 1 :
          /\ hIndex' = idx
          /\ hCode' = hHistory[idx + 1]
    /\ UNCHANGED <<hHistory, hClosure>>
    /\ UNCHANGED nonHistoryVars

HistoryNext == Submit \/ CodeGenerated \/ handleUndo \/ handleRedo \/ jumpToVersion

\* ======================================================================
\* Part 6: the validation of generated code (lib/validation), called by
\* the route on the code it is about to send.  Its regular expressions are
\* module constants with the g flag and keep their lastIndex between calls.
\* ======================================================================

DivTag == "<div>"

CarouselTag == "<Carousel />"

\* DANGEROUS_PATTERNS of the validation module, in the order of the array.
VALIDATION_DANGEROUS_PATTERNS ==
    <<"eval(", "Function(", "dangerouslySetInnerHTML", "<script>",
      "javascript:", "on*=">>

ValidatedPieces == {Benign, EvalCall, InlineHandler, InnerHTML, DivTag, CarouselTag}

\* validateComponentUsage (lines 49-120): the result and the lastIndex each
\* pattern is left with.  The patterns are tested from where their last test
\* stopped.
validateComponentUsage(code, indexes) ==
    LET all == VALIDATION_DANGEROUS_PATTERNS
        Test(i) == RegexTest(all[i], code, indexes[all[i]])
        Found(i) == Test(i).found
        HasTag(i) == code[i] = DivTag
        HasUnknown(i) == code[i] = CarouselTag
        positions == [i \in DOMAIN code |-> i]
        Go(hit) ==
            [isValid |-> hit = <<>>,
             errors |-> [k \in DOMAIN hit |-> all[hit[k]]],
             warnings |->
                (IF SelectSeq(positions, HasTag) # <<>>
                 THEN <<"Found forbidden HTML tags: div">> ELSE <<>>)
                \o (IF SelectSeq(positions, HasUnknown) # <<>>
                    THEN <<"Unknown components detected: Carousel">> ELSE <<>>),
             lastIndex |-> [p \in Range(all) |->
                               LET i == CHOOSE n \in DOMAIN all : all[n] = p
                               IN Test(i).lastIndex]]
    IN Go(SelectSeq([i \in DOMAIN all |-> i], Found))

NotYetValidated == [isValid |-> TRUE, errors |-> <<>>, warnings |-> <<>>]

ValidationInit ==
    /\ vcCode = <<>>
    /\ vcLastIndex = [p \in Range(VALIDATION_DANGEROUS_PATTERNS) |-> 0]
    /\ vcResult = NotYetValidated
    /\ vcCalled = FALSE

\* The route validates the code of a request (route.ts lines 190-192).
ValidateCode ==
    /\ \E code \in SourcesOf(ValidatedPieces) :
         \E validation \in {validateComponentUsage(code, vcLastIndex)} :
            /\ vcCode' = code
            /\ vcLastIndex' = validation.lastIndex
            /\ vcResult' = [isValid |-> validation.isValid,
                            errors |-> validation.errors,
                            warnings |-> validation.warnings]
    /\ vcCalled' = TRUE
    /\ UNCHANGED nonValidationVars

ValidationNext == ValidateCode

\* ---------------------------------------------------------------------------
\* Part 7: the scope of the preview (unnamed/part_002, steps 5, 6 and 8)
\* ---------------------------------------------------------------------------

\* The import specifiers a lucide-react import of the code may hold.
MaxImports == 2

\* `name` or `name as alias` between the braces of the import.
Specifier(n, a) == [name |-> n, alias |-> a]

\* The values of the scope.  Every value is a record of the same shape.
Value(k, n) == [kind |-> k, name |-> n]

undefined == Value("undefined", "")

\* The exports of lucide-react among the names of the model: Dashboard is
\* not an icon of the library.
LucideIcons == {"Home", "Menu", "Table", "BarChart"}

RequestedSpecifiers ==
    {Specifier("Home", ""), Specifier("Table", "TableIcon"), Specifier("Table", ""),
     Specifier("Dashboard", ""), Specifier("Dashboard", "DashIcon")}

\* The import lists of the model: up to MaxImports specifiers.
ImportLists ==
    UNION {[1 .. n -> RequestedSpecifiers] : n \in 0 .. MaxImports}

\* sandbox.ts lines 11-40.
BLOCKED_GLOBALS ==
    {"window", "document", "globalThis", "self", "top", "parent", "frames",
     "location", "navigator", "localStorage", "sessionStorage", "indexedDB",
     "fetch", "XMLHttpRequest", "WebSocket", "Worker", "SharedWorker",
     "ServiceWorker", "importScripts", "postMessage", "opener", "chrome",
     "process", "require", "module", "exports", "__dirname", "__filename"}

\* sandbox.ts lines 117-125.
createBlockedScope == [name \in BLOCKED_GLOBALS \cup {"eval"} |-> undefined]

\* part_002 lines 124-141.
componentScope ==
    [name \in {"React", "useState", "useEffect", "useCallback", "useMemo", "useRef",
               "Button", "Input", "Card", "CardHeader", "CardTitle",
               "CardDescription", "CardContent", "CardFooter", "Box", "Stack",
               "Grid", "Container", "Heading", "Text", "Table", "TableHeader",
               "TableBody", "TableRow", "TableHead", "TableCell", "TableFooter",
               "TableCaption", "Modal", "Navbar", "Sidebar", "SidebarItem",
               "Chart", "BarChart", "LineChart", "PieChart"}
        |-> Value("component", name)]

NoScope == [name \in {} |-> undefined]

\* The name the code refers to the import by.
IdentifierOf(specifier) ==
    IF specifier.alias # "" THEN specifier.alias ELSE specifier.name

\* Lines 183-205: one specifier of the import; an icon the library does not
\* have is warned about and left out.
registerIcon(usedIcons, specifier) ==
    IF specifier.name \in LucideIcons
    THEN [k \in DOMAIN usedIcons \cup {IdentifierOf(specifier)} |->
             IF k = IdentifierOf(specifier) THEN Value("icon", specifier.name)
             ELSE usedIcons[k]]
    ELSE usedIcons

\* Lines 213-223: the get trap of iconProxy.
iconProxyGet(target, prop) ==
    IF prop \in DOMAIN target THEN target[prop] ELSE Value("placeholder", prop)

\* `...iconProxy`: the proxy has no ownKeys trap, so the spread copies the
\* own enumerable keys of the target, each read through the get trap.
spreadOfProxy(target) == [k \in DOMAIN target |-> iconProxyGet(target, k)]

\* { ...a, ...b }
Spread(a, b) ==
    [k \in DOMAIN a \cup DOMAIN b |-> IF k \in DOMAIN b THEN b[k] ELSE a[k]]

\* Lines 226-230.
combinedScope(usedIcons) ==
    Spread(Spread(createBlockedScope, spreadOfProxy(usedIcons)),
           componentScope)

\* Lines 246-254: the code runs as the body of a function whose parameters
\* are the keys of the scope; a name that is no parameter is looked up
\* among the globals, where no icon is.
Reference(scope, identifier) ==
    IF identifier \in DOMAIN scope THEN scope[identifier]
    ELSE Value("ReferenceError", identifier)

ScopeInit ==
    /\ scImports = <<>>
    /\ scDone = 0
    /\ scUsedIcons = NoScope
    /\ scScope = NoScope
    /\ scSeen = NoScope
    /\ scStage = "idle"

\* Lines 147 and 177: the effect runs on a new code and finds its
\* lucide-react import; what the run before built is gone.
FindIconImport ==
    /\ scStage \in {"idle", "run"}
    /\ \E imports \in ImportLists : scImports' = imports
    /\ scDone' = 0
    /\ scUsedIcons' = NoScope
    /\ scScope' = NoScope
    /\ scSeen' = NoScope
    /\ scStage' = "extracting"
    /\ UNCHANGED nonScopeVars

\* Lines 183-205: one turn of imports.forEach.
ExtractIcon ==
    /\ scStage = "extracting"
    /\ scDone < Len(scImports)
    /\ scUsedIcons' = registerIcon(scUsedIcons, scImports[scDone + 1])
    /\ scDone' = scDone + 1
    /\ UNCHANGED <<scImports, scScope, scSeen, scStage>>
    /\ UNCHANGED nonScopeVars

\* Lines 210-230: the scope is built.
BuildScope ==
    /\ scStage = "extracting"
    /\ scDone = Len(scImports)
    /\ scScope' = combinedScope(scUsedIcons)
    /\ scStage' = "built"
    /\ UNCHANGED <<scImports, scDone, scUsedIcons, scSeen>>
    /\ UNCHANGED nonScopeVars

\* Lines 246-254 and the render: the component refers to every icon it
\* imported.
ReferenceIcons ==
    /\ scStage = "built"
    /\ scSeen' = [id \in {IdentifierOf(s) : s \in Range(scImports)} |->
                     Reference(scScope, id)]
    /\ scStage' = "run"
    /\ UNCHANGED <<scImports, scDone, scUsedIcons, scScope>>
    /\ UNCHANGED nonScopeVars

ScopeNext ==
    FindIconImport \/ ExtractIcon \/ BuildScope \/ ReferenceIcons

\* ---------------------------------------------------------------------------
\* Part 8: the event stream of the route (route.ts lines 69-237)
\* ---------------------------------------------------------------------------

\* The requests the route streams one after the other.
MaxStreams == 2

\* An event of the stream: `step` with its step and status, `done`, `error`.
StepEvent(step, status) == [event |-> "step", step |-> step, status |-> status]

Done == [event |-> "done", step |-> "", status |-> ""]

Error == [event |-> "error", step |-> "", status |-> ""]

\* An answer of the model never sent: the call threw.
Threw == "threw"

\* What the planner call comes to: the call or the parsing of its answer
\* throws, or there is a plan.  The plan is a patch of the AST the request
\* brought, a new tree, or neither.
PlannerOutcomes == {Threw, "patch with AST", "new with components", "other"}

\* Lines 71-75: send enqueues the event on the stream.
send(events, event) == Append(events, event)

\* Lines 121-146: the warnings of the patch branch.
patchBranchEvents(patchSuccess, genErrors) ==
    (IF ~patchSuccess THEN <<StepEvent("generator", "warning")>> ELSE <<>>)
    \o (IF genErrors THEN <<StepEvent("generator", "warning")>> ELSE <<>>)

\* Lines 155-163: the warning of the branch of a new tree.
newBranchEvents(astValid) ==
    IF ~astValid THEN <<StepEvent("generator", "warning")>> ELSE <<>>

\* Lines 229-232 without the send: the error is logged and nothing is sent.
logError(events) == events

\* Lines 229-232: the catch sends `error`.
sendError(events) == send(events, Error)

RECURSIVE sendAll(_, _, _)
sendAll(events, more, i) ==
    IF i > Len(more) THEN events ELSE sendAll(send(events, more[i]), more, i + 1)

StreamInit ==
    /\ stEvents = <<>>
    /\ stClosed = FALSE
    /\ stPc = "idle"
    /\ stPlan = "none"
    /\ stThrownIn = "none"
    /\ stRequests = 0

\* Lines 69-79: the stream starts; the planner is announced and called.
StreamStart ==
    /\ stPc \in {"idle", "returned"}
    /\ stRequests < MaxStreams
    /\ stRequests' = stRequests + 1
    /\ stEvents' = send(<<>>, StepEvent("planner", "start"))
    /\ stClosed' = FALSE
    /\ stPc' = "planner"
    /\ stPlan' = "none"
    /\ stThrownIn' = "none"
    /\ UNCHANGED nonStreamVars

\* Lines 81-116: the planner answers; the plan is sent and the generator
\* announced.  A throw of orchestratedGenerate or of JSON.parse goes to the
\* catch.
PlannerAnswers ==
    /\ stPc = "planner"
    /\ \E outcome \in PlannerOutcomes :
          IF outcome = Threw
          THEN /\ stPc' = "caught"
               /\ stThrownIn' = "planner"
               /\ UNCHANGED <<stEvents, stPlan>>
          ELSE /\ stEvents' = send(send(stEvents, StepEvent("planner", "complete")),
                                   StepEvent("generator", "start"))
               /\ stPlan' = outcome
               /\ stPc' = "generator"
               /\ UNCHANGED stThrownIn
    /\ UNCHANGED <<stClosed, stRequests>>
    /\ UNCHANGED nonStreamVars

\* What the end of step 2 and the start of step 3 send: lines 190-201.
GeneratorCompletes(events) ==
    /\ stEvents' = send(send(events, StepEvent("generator", "complete")),
                        StepEvent("explainer", "start"))
    /\ stPc' = "explainer"
    /\ UNCHANGED stThrownIn

GeneratorThrows ==
    /\ stPc' = "caught"
    /\ stThrownIn' = "generator"

\* Lines 121-146 and 190-201: the patches are applied and the tree lowered;
\* JSON.parse, applyPatches and generateCodeFromAST may throw, the last
\* after the warning of the patches.
GeneratorPatches ==
    /\ stPc = "generator"
    /\ stPlan = "patch with AST"
    /\ \E patchSuccess \in BOOLEAN, genErrors \in BOOLEAN, threw \in {"no", "early", "late"} :
          IF threw = "early" THEN GeneratorThrows /\ UNCHANGED stEvents
          ELSE IF threw = "late"
          THEN /\ GeneratorThrows
               /\ stEvents' = sendAll(stEvents, patchBranchEvents(patchSuccess, FALSE), 1)
          ELSE GeneratorCompletes(
                   sendAll(stEvents, patchBranchEvents(patchSuccess, genErrors), 1))
    /\ UNCHANGED <<stClosed, stPlan, stRequests>>
    /\ UNCHANGED nonStreamVars

\* Lines 147-177 and 190-201: the new tree is validated and lowered; with
\* generation errors the model is asked for the code, and that call may
\* throw, as generateCodeFromAST may.
GeneratorNew ==
    /\ stPc = "generator"
    /\ stPlan = "new with components"
    /\ \E astValid \in BOOLEAN, threw \in BOOLEAN :
          IF threw
          THEN /\ GeneratorThrows
               /\ stEvents' = sendAll(stEvents, newBranchEvents(astValid), 1)
          ELSE GeneratorCompletes(sendAll(stEvents, newBranchEvents(astValid), 1))
    /\ UNCHANGED <<stClosed, stPlan, stRequests>>
    /\ UNCHANGED nonStreamVars

\* Lines 178-201: the model is asked for the code; the call may throw.
GeneratorFallback ==
    /\ stPc = "generator"
    /\ stPlan = "other"
    /\ \E threw \in BOOLEAN :
          IF threw THEN GeneratorThrows /\ UNCHANGED stEvents
          ELSE GeneratorCompletes(stEvents)
    /\ UNCHANGED <<stClosed, stPlan, stRequests>>
    /\ UNCHANGED nonStreamVars

\* Lines 203-228: the explanation arrives, it is sent and so is `done`; a
\* throw of the call, or of building its prompt, goes to the catch.
ExplainerAnswers ==
    /\ stPc = "explainer"
    /\ \E threw \in BOOLEAN :
          IF threw
          THEN /\ stPc' = "caught"
               /\ stThrownIn' = "explainer"
               /\ UNCHANGED stEvents
          ELSE /\ stEvents' = send(send(stEvents, StepEvent("explainer", "complete")),
                                   Done)
               /\ stPc' = "finally"
               /\ UNCHANGED stThrownIn
    /\ UNCHANGED <<stClosed, stPlan, stRequests>>
    /\ UNCHANGED nonStreamVars

\* Lines 229-232: the catch sends `error`.
Catch ==
    /\ stPc = "caught"
    /\ stEvents' = sendError(stEvents)
    /\ stPc' = "finally"
    /\ UNCHANGED <<stClosed, stPlan, stThrownIn, stRequests>>
    /\ UNCHANGED nonStreamVars

\* Lines 233-235: the stream is closed.
Finally ==
    /\ stPc = "finally"
    /\ stClosed' = TRUE
    /\ stPc' = "returned"
    /\ UNCHANGED <<stEvents, stPlan, stThrownIn, stRequests>>
    /\ UNCHANGED nonStreamVars

StreamNext ==
    \/ StreamStart \/ PlannerAnswers \/ GeneratorPatches \/ GeneratorNew
    \/ GeneratorFallback \/ ExplainerAnswers \/ Catch \/ Finally

\* ---------------------------------------------------------------------------
\* Part 9: the orchestrator of the models (unnamed/part_004, lines 495-666)
\* ---------------------------------------------------------------------------

\* The unique keys a provider may have.
MaxKeys == 2

\* Line 538: the default of opts.maxRetries; no caller passes another.
maxRetries == 2

OPENAI_MODELS == <<"gpt-4o", "gpt-3.5-turbo">>

GEMINI_MODELS == <<"gemini-2.5-flash", "gemini-2.0-flash", "gemini-pro">>

ModelsOf(provider) == IF provider = "openai" THEN OPENAI_MODELS ELSE GEMINI_MODELS

\* Where orchestratedGenerate is in its loops: the provider, the index of
\* the model, `i`, `retry` and the startIdx of the provider.
Position(p, m, i, r, s) ==
    [provider |-> p, model |-> m, i |-> i, retry |-> r, startIdx |-> s]

\* Line 663: the loops are over.
AllFailed == Position("none", 0, 0, 0, 0)

\* A model of a provider with the index of a key.
Pair(p, m, k) == [provider |-> p, model |-> m, keyIdx |-> k]

NoPair == Pair("none", "", 0)

\* Lines 551 and 610: keyIdx.
keyIdxOf(pos, keys) == (pos.startIdx + pos.i) % keys[pos.provider]

PairOf(pos, keys) ==
    IF pos = AllFailed THEN NoPair
    ELSE Pair(pos.provider, ModelsOf(pos.provider)[pos.model], keyIdxOf(pos, keys))

\* Lines 546-547 and 605-606: the first call of a provider that has keys.
enterProvider(provider, keys, rr) ==
    Position(provider, 1, 0, 0, rr[provider] % keys[provider])

\* Lines 546, 605 and 663: the provider after `after`, if it has keys.
nextProvider(after, keys, rr) ==
    IF after = "none" /\ keys.openai > 0
    THEN enterProvider("openai", keys, rr)
    ELSE IF after # "gemini" /\ keys.gemini > 0
    THEN enterProvider("gemini", keys, rr)
    ELSE AllFailed

\* The loops over the keys and the models step on: lines 549-550, 608-609.
nextKey(pos, keys, rr) ==
    IF pos.i + 1 < keys[pos.provider]
    THEN [pos EXCEPT !.i = pos.i + 1, !.retry = 0]
    ELSE IF pos.model < Len(ModelsOf(pos.provider))
    THEN [pos EXCEPT !.model = pos.model + 1, !.i = 0, !.retry = 0]
    ELSE nextProvider(pos.provider, keys, rr)

\* Lines 554 and 579-582: an answer the schema rejects; the retry loop steps on.
afterInvalid(pos, keys, rr) ==
    IF pos.retry + 1 < maxRetries THEN [pos EXCEPT !.retry = pos.retry + 1]
    ELSE nextKey(pos, keys, rr)

\* The catch without its break: the retry loop steps on.
afterThrowRetrying(pos, keys, rr) ==
    afterInvalid(pos, keys, rr)

\* Lines 583-598: the call threw; break, the next key.
afterThrow(pos, keys, rr) == nextKey(pos, keys, rr)

Outcomes == {"valid", "invalid", "threw"}

NoCallYet == [pair |-> NoPair, outcome |-> "none"]

OrchestratorInit ==
    /\ orKeys = [openai |-> 0, gemini |-> 0]
    /\ roundRobinState = [openai |-> 0, gemini |-> 0]
    /\ orPos = AllFailed
    /\ orPc = "idle"
    /\ orFailed = <<>>
    /\ orLast = NoCallYet
    /\ orAttempt = 0

\* Lines 534-547: orchestratedGenerate is called; the keys are those of the
\* environment and of the request.
Orchestrate ==
    /\ orPc \in {"idle", "returned", "threw"}
    /\ \E keys \in [{"openai", "gemini"} -> 0 .. MaxKeys] :
          /\ orKeys' = keys
          /\ \E pos \in {nextProvider("none", keys, roundRobinState)} :
                /\ orPos' = pos
                /\ orPc' = IF pos = AllFailed THEN "threw" ELSE "calling"
    /\ orFailed' = <<>>
    /\ orLast' = NoCallYet
    /\ orAttempt' = 0
    /\ UNCHANGED roundRobinState
    /\ UNCHANGED nonOrchestratorVars

\* Lines 554-599 and 613-658: the call of the model settles: an answer the
\* validator accepts, one it rejects, or a throw.
CallSettles ==
    /\ orPc = "calling"
    /\ orAttempt' = orAttempt + 1
    /\ \E outcome \in Outcomes :
          /\ orLast' = [pair |-> PairOf(orPos, orKeys), outcome |-> outcome]
          /\ IF outcome = "valid"
             THEN /\ roundRobinState' =
                        [roundRobinState EXCEPT
                            ![orPos.provider] = keyIdxOf(orPos, orKeys) + 1]
                  /\ orPc' = "returned"
                  /\ UNCHANGED <<orPos, orFailed>>
             ELSE \E pos \in {IF outcome = "invalid"
                              THEN afterInvalid(orPos, orKeys, roundRobinState)
                              ELSE afterThrow(orPos, orKeys, roundRobinState)} :
                     /\ orPos' = pos
                     /\ orPc' = IF pos = AllFailed THEN "threw" ELSE "calling"
                     /\ orFailed' = IF PairOf(pos, orKeys) # PairOf(orPos, orKeys)
                                    THEN Append(orFailed, PairOf(orPos, orKeys))
                                    ELSE orFailed
                     /\ UNCHANGED roundRobinState
    /\ UNCHANGED orKeys
    /\ UNCHANGED nonOrchestratorVars

OrchestratorNext == Orchestrate \/ CallSettles

\* ------------------------------------------------------ the specifications

\* Every part other than the patch engine at rest.
OthersInit ==
    /\ GenInit
    /\ SandboxInit
    /\ RateInit
    /\ HistoryInit
    /\ ValidationInit
    /\ ScopeInit
    /\ StreamInit
    /\ OrchestratorInit

\* The patch engine alone: a caller and its calls of applyPatches.
PatchParked == PatchInit /\ callerDoc = createEmptyAST

PatchSpecInit == PatchInit /\ OthersInit

PatchSpec == PatchSpecInit /\ [][PatchNext]_vars

\* The route serving one request after the other.
GenSpecInit == PatchParked /\ OthersInit

GenSpec == GenSpecInit /\ [][GenNext]_vars

\* The sandbox and the preview, one run after the other.
SandboxSpecInit == PatchParked /\ OthersInit

SandboxSpec == SandboxSpecInit /\ [][SandboxNext]_vars

\* The rate limiter and its clock.
RateSpecInit == PatchParked /\ OthersInit

RateSpec == RateSpecInit /\ [][RateNext]_vars

\* The page: requests, their arrival, undo, redo and the timeline.
HistorySpecInit == PatchParked /\ OthersInit

HistorySpec == HistorySpecInit /\ [][HistoryNext]_vars

\* The validation of generated code, one call after the other.
ValidationSpecInit == PatchParked /\ OthersInit

ValidationSpec == ValidationSpecInit /\ [][ValidationNext]_vars

\* The preview building the scope of one code after the other.
ScopeSpecInit == PatchParked /\ OthersInit

ScopeSpec == ScopeSpecInit /\ [][ScopeNext]_vars

\* The route streaming the events of one request after the other; a step
\* that can be taken is taken.
StreamSpecInit == PatchParked /\ OthersInit

StreamSpec == StreamSpecInit /\ [][StreamNext]_vars /\ WF_vars(StreamNext)

\* The orchestrator, one call after the other; a call of a model settles.
OrchestratorSpecInit == PatchParked /\ OthersInit

OrchestratorSpec ==
    OrchestratorSpecInit /\ [][OrchestratorNext]_vars /\ WF_vars(CallSettles)

Init == PatchInit /\ OthersInit

Next ==
    PatchNext \/ GenNext \/ SandboxNext \/ RateNext \/ HistoryNext
    \/ ValidationNext \/ ScopeNext \/ StreamNext
    \/ OrchestratorNext

Spec == Init /\ [][Next]_vars

\* ============================================================== the claims

\* ------------------------------------- what the specification says of paths

\* A dotted chain of children[<digits>] segments from position i to the end
\* of the path: whether it is one, and the indices it names.
RECURSIVE GrammarChain(_, _)
GrammarChain(path, i) ==
    LET j == DigitsEnd(path, i + 1) IN
    IF /\ i <= Len(path)
       /\ path[i] = "children["
       /\ j > i + 1
       /\ j <= Len(path)
       /\ path[j] = "]"
    THEN IF j = Len(path)
         THEN [ok |-> TRUE, steps |-> <<parseInt(path, i + 1, j)>>]
         ELSE IF path[j + 1] = "."
         THEN LET rest == GrammarChain(path, j + 2) IN
              [ok |-> rest.ok, steps |-> <<parseInt(path, i + 1, j)>> \o rest.steps]
         ELSE [ok |-> FALSE, steps |-> <<>>]
    ELSE [ok |-> FALSE, steps |-> <<>>]

\* The addressing grammar: `root`, a chain, or (as the planner is told to
\* write it) root followed by a chain.
Grammar(path) ==
    IF path = <<"root">> THEN [ok |-> TRUE, steps |-> <<>>]
    ELSE IF Len(path) > 2 /\ path[1] = "root" /\ path[2] = "."
    THEN GrammarChain(path, 3)
    ELSE GrammarChain(path, 1)

\* Every step but the last leads to a component node.
RECURSIVE ParentResolves(_, _)
ParentResolves(children, steps) ==
    \/ Len(steps) <= 1
    \/ /\ steps[1] < Len(children)
       /\ children[steps[1] + 1].kind = "node"
       /\ ParentResolves(children[steps[1] + 1].children, Tail(steps))

\* Some step but the last runs into a text leaf or past the end of a list.
RECURSIVE ParentBroken(_, _)
ParentBroken(children, steps) ==
    /\ Len(steps) > 1
    /\ \/ steps[1] >= Len(children)
       \/ children[steps[1] + 1].kind = "text"
       \/ /\ children[steps[1] + 1].kind = "node"
          /\ ParentBroken(children[steps[1] + 1].children, Tail(steps))

ParentOf(steps) == SubSeq(steps, 1, Len(steps) - 1)

TargetIndex(steps) == steps[Len(steps)]

\* The children list a resolving path addresses in doc.
Addressed(doc, steps) == ChildrenAt(doc.components, ParentOf(steps))

\* doc with the addressed children list replaced and nothing else touched.
WithAddressed(doc, steps, new) ==
    [doc EXCEPT !.components = SetChildrenAt(doc.components, ParentOf(steps), new)]

\* --------------------------------------------- what the last iteration did

\* The loop has just processed the patch `last` on the document prev.doc.
Acted == pc \in {"loop", "returned"} /\ last # NoPatch

Succeeded ==
    /\ appliedCount = prev.appliedCount + 1
    /\ errors = prev.errors

\* Exactly one entry, naming the patch, was added to errors.
Failed ==
    /\ appliedCount = prev.appliedCount
    /\ Len(errors) = Len(prev.errors) + 1
    /\ SubSeq(errors, 1, Len(prev.errors)) = prev.errors
    /\ errors[Len(errors)].action = last.action
    /\ errors[Len(errors)].targetPath = last.targetPath

LastSteps == Grammar(last.targetPath).steps

LastWellFormed == Grammar(last.targetPath).ok

\* C1: applyPatches never modifies the document the caller passed in: in
\* every state from the call on, through failing patches and through the
\* caller's later edits of the returned document, the caller's document is
\* what it was at the call, and the working document is another object.
C1_InputNeverModified ==
    /\ callerDoc = before
    /\ pc # "idle" => ~current.shared

C1_Witness ==
    /\ pc = "edited"
    /\ Len(errors) > 0
    /\ appliedCount > 0
    /\ current.doc # callerDoc
    /\ callerDoc.components # <<>>

\* C2: an add patch with a component whose path resolves inserts the node
\* right after the named index of the addressed children (appends it when
\* the index is past the end, appends to the top-level components for the
\* root path) and leaves every other node, at every depth, as it was.
C2_AddInsertsAfterIndex ==
    (/\ Acted
     /\ last.action = "add"
     /\ last.component.kind = "node"
     /\ LastWellFormed
     /\ ParentResolves(prev.doc.components, LastSteps))
    => /\ Succeeded
       /\ IF LastSteps = <<>>
          THEN current.doc =
                 [prev.doc EXCEPT !.components = Append(@, last.component)]
          ELSE LET old == Addressed(prev.doc, LastSteps)
                   k   == TargetIndex(LastSteps)
                   new == IF k >= Len(old)
                          THEN Append(old, last.component)
                          ELSE SubSeq(old, 1, k + 1) \o <<last.component>>
                               \o SubSeq(old, k + 2, Len(old))
               IN current.doc = WithAddressed(prev.doc, LastSteps, new)

\* The part of C2 the code does satisfy (adds at the top level), kept as a
\* check that the violation of C2 comes from nested parents alone.
C2_TopLevelAdd ==
    Len(LastSteps) > 1 \/ C2_AddInsertsAfterIndex

\* C3: an update on a resolving path replaces the target node by the
\* component of the patch when there is one; with props alone it overrides
\* the node's props key by key and keeps its type and children; siblings and
\* all other nodes stay as they were; a text leaf as target is an error.
C3_UpdateReplacesOrMerges ==
    (/\ Acted
     /\ last.action = "update"
     /\ LastWellFormed
     /\ Len(LastSteps) >= 1
     /\ ParentResolves(prev.doc.components, LastSteps)
     /\ TargetIndex(LastSteps) < Len(Addressed(prev.doc, LastSteps)))
    => LET old    == Addressed(prev.doc, LastSteps)
           k      == TargetIndex(LastSteps)
           target == old[k + 1]
           now    == Addressed(current.doc, LastSteps)[k + 1]
       IN
       CASE target.kind = "text" -> Failed /\ current.doc = prev.doc
         [] target.kind = "node" /\ last.component.kind = "node" ->
              /\ Succeeded
              /\ now = last.component
              /\ current.doc =
                   WithAddressed(prev.doc, LastSteps, [old EXCEPT ![k + 1] = now])
         [] target.kind = "node" /\ last.component.kind # "node" /\ last.props.given ->
              /\ Succeeded
              /\ now.kind = "node"
              /\ now.type = target.type
              /\ now.children = target.children
              /\ DOMAIN now.props = DOMAIN target.props \cup DOMAIN last.props.map
              /\ \A key \in DOMAIN now.props :
                    now.props[key] = IF key \in DOMAIN last.props.map
                                     THEN last.props.map[key]
                                     ELSE target.props[key]
              /\ current.doc =
                   WithAddressed(prev.doc, LastSteps, [old EXCEPT ![k + 1] = now])
         [] OTHER -> TRUE

\* A props update that overwrote one key and kept another.
C3_Witness ==
    /\ Acted
    /\ last = Patch("update", Path1("0"), Undefined, Ghost)
    /\ Succeeded
    /\ prev.doc.components[1].type = "Stack"
    /\ current.doc.components[1].props = [gap |-> "md", variant |-> "ghost"]
    /\ Len(prev.errors) > 0

\* C4: a remove on a resolving path deletes exactly the child at the target
\* index (one child fewer, later siblings one place down, nothing else
\* changed); with the index past the end the patch fails and the document
\* stays as it was.
C4_RemoveDeletesTarget ==
    (/\ Acted
     /\ last.action = "remove"
     /\ LastWellFormed
     /\ Len(LastSteps) >= 1
     /\ ParentResolves(prev.doc.components, LastSteps))
    => LET old == Addressed(prev.doc, LastSteps)
           k   == TargetIndex(LastSteps)
       IN
       IF k >= Len(old)
       THEN Failed /\ current.doc = prev.doc
       ELSE LET now == Addressed(current.doc, LastSteps) IN
            /\ Succeeded
            /\ Len(now) = Len(old) - 1
            /\ \A i \in 1 .. Len(now) : now[i] = IF i <= k THEN old[i] ELSE old[i + 1]
            /\ current.doc = WithAddressed(prev.doc, LastSteps, now)

\* A text leaf removed from under a nested parent, and a remove past the end.
C4_Witness ==
    /\ Acted
    /\ last = Patch("remove", Path2("0", "1"), Undefined, NotGiven)
    /\ Succeeded
    /\ prev.doc.components[1].children = <<TextA, Leaf("leaf")>>
    /\ current.doc.components[1].children = <<TextA>>
    /\ Len(current.doc.components) = 2
    /\ Len(errors) > 0
    /\ errors[1].action = "remove"
    /\ errors[1].msg = "No node at index"

\* The addressing failures of C5: a step before the last runs into a text
\* leaf or past the end of a list, or the last index of an update or a
\* remove is past the end.
AddressingFailure(doc, patch) ==
    LET g == Grammar(patch.targetPath) IN
    /\ g.ok
    /\ Len(g.steps) >= 1
    /\ \/ ParentBroken(doc.components, g.steps)
       \/ /\ patch.action \in {"update", "remove"}
          /\ ParentResolves(doc.components, g.steps)
          /\ TargetIndex(g.steps) >= Len(Addressed(doc, g.steps))

\* C5: a patch with an addressing failure does not throw out of
\* applyPatches: it adds exactly one entry to errors, is not counted in
\* appliedPatches, leaves the working document as it was and makes success
\* false; and the loop goes on: every patch consumed so far, before or after
\* a failure, was either counted or reported.
C5_AddressingFailureIsPerPatch ==
    /\ pc \in {"loop", "returned"} => Len(errors) + appliedCount = Len(patches)
    /\ (Acted /\ AddressingFailure(prev.doc, last))
       => /\ Failed
          /\ current.doc = prev.doc
          /\ ~PatchResult(LoopState).success

\* Scenario 3 (update of children[5] of a parent with two children), and a
\* patch applied after a failed one in the same call.
C5_Witness ==
    /\ pc = "returned"
    /\ Len(patches) = 2
    /\ patches[1] = Patch("update", Path1("5"), Undefined, Ghost)
    /\ Len(before.components) = 2
    /\ Len(errors) = 1
    /\ errors[1].msg = "No node at"
    /\ appliedCount = 1
    /\ current.doc # before
    /\ ~PatchResult(LoopState).success

\* C6: an add patch without a component is a failed patch: reported in
\* errors, not counted, nothing inserted, at the root path and at a
\* children[...] path alike.
C6_AddWithoutComponentFails ==
    (/\ Acted
     /\ last.action = "add"
     /\ last.component.kind = "undef"
     /\ LastWellFormed)
    => Failed /\ current.doc = prev.doc

\* C7: whatever the action, a target path outside the grammar is rejected:
\* the patch fails with an error and the document stays as it was.
C7_MalformedPathRejected ==
    (Acted /\ ~LastWellFormed) => Failed /\ current.doc = prev.doc

\* What the code does reject among the malformed paths: those of an update
\* or a remove in which children\[\d+\] matches nowhere.
C7_NoMatchUpdateRemoveRejected ==
    (Acted /\ ~LastWellFormed /\ last.action # "add" /\ parsePath(last.targetPath) = <<>>)
    => Failed /\ current.doc = prev.doc

\* C8: patches are applied in list order, each to the document the
\* successful patches before it produced: whenever a list was applied in one
\* call or split over two calls (the second on the result of the first),
\* the working document is the one a single call on the whole list returns;
\* within one call the errors and the count are those of that call too.
C8_SequentialComposition ==
    pc \in {"loop", "returned"}
    => LET whole == applyPatches(Handle(TRUE, origDoc), allPatches) IN
       /\ current.doc = whole.ast.doc
       /\ calls = 1 => /\ errors = whole.errors
                       /\ appliedCount = whole.appliedPatches

\* A list split over two calls, whose second part updates the node its
\* first part added.
C8_Witness ==
    /\ pc = "returned"
    /\ calls = 2
    /\ origDoc = createEmptyAST
    /\ allPatches = << Patch("add", PathRoot, TextHi, NotGiven),
                       Patch("update", Path1("0"), Undefined, Ghost) >>
    /\ patches = << Patch("update", Path1("0"), Undefined, Ghost) >>
    /\ appliedCount = 1
    /\ current.doc.components =
          << Node("Text", [children |-> "Hi", variant |-> "ghost"], <<>>) >>

\* A patch is well addressed against a document: its path is in the
\* grammar, every step but the last leads to a node, and the last step names
\* an insertion point (add), an existing node (update) or an existing child
\* (remove).
WellAddressed(doc, patch) ==
    LET g == Grammar(patch.targetPath) IN
    /\ g.ok
    /\ ParentResolves(doc.components, g.steps)
    /\ patch.action \in {"update", "remove"} =>
          /\ Len(g.steps) >= 1
          /\ TargetIndex(g.steps) < Len(Addressed(doc, g.steps))
    /\ patch.action = "update" =>
          Addressed(doc, g.steps)[TargetIndex(g.steps) + 1].kind = "node"

\* Every patch of the list from position i on is well addressed against the
\* document it is applied to, h being the document patch i is applied to.
RECURSIVE AllWellAddressed(_, _, _)
AllWellAddressed(h, patchList, i) ==
    \/ i > Len(patchList)
    \/ /\ WellAddressed(h.doc, patchList[i])
       /\ LET r == applySinglePatch(h, patchList[i]) IN
          AllWellAddressed(IF r.threw THEN h ELSE r.ast, patchList, i + 1)

\* C9: a call in which every patch is well addressed against the document
\* it is applied to has success = TRUE, no errors and appliedPatches = the
\* number of patches; one Text node added at root to the empty document
\* gives exactly that one component and appliedPatches = 1.
C9_WellAddressedAllApplied ==
    /\ (pc \in {"loop", "returned"} /\ AllWellAddressed(Handle(TRUE, before), patches, 1))
       => /\ PatchResult(LoopState).success
          /\ PatchResult(LoopState).errors = <<>>
          /\ PatchResult(LoopState).appliedPatches = Len(patches)
    /\ (/\ pc = "returned"
        /\ before = createEmptyAST
        /\ patches = <<Patch("add", PathRoot, TextHi, NotGiven)>>)
       => /\ PatchResult(LoopState).ast.doc.components = <<TextHi>>
          /\ PatchResult(LoopState).appliedPatches = 1

\* Two well-addressed patches in one call, the first an add past the end of
\* the top-level list (which appends).
C9_Witness ==
    /\ pc = "returned"
    /\ Len(patches) = 2
    /\ patches[1] = Patch("add", Path1("5"), TextHi, NotGiven)
    /\ patches[2].action = "remove"
    /\ Len(before.components) = 2
    /\ AllWellAddressed(Handle(TRUE, before), patches, 1)
    /\ appliedCount = 2

PropsOnlyUpdate(patch) ==
    /\ patch.action = "update"
    /\ patch.component.kind = "undef"
    /\ patch.props.given

\* C10: update by prop merge is idempotent: when the same props-only update
\* has just been applied a second time in a row (in the same call or in the
\* next call), the document is the one its first application left.
C10_PropMergeIdempotent ==
    (/\ Acted
     /\ PropsOnlyUpdate(last)
     /\ Len(allPatches) >= 2
     /\ allPatches[Len(allPatches) - 1] = last)
    => current.doc = prev.doc

\* The same merge applied twice to a nested node, once in each of two calls,
\* both times with success; the first application changed the document.
C10_Witness ==
    /\ Acted
    /\ calls = 2
    /\ allPatches = << Patch("update", Path2("0", "0"), Undefined, Ghost),
                       Patch("update", Path2("0", "0"), Undefined, Ghost) >>
    /\ Succeeded
    /\ current.doc # origDoc
    /\ current.doc.components[1].children[1].props = [children |-> "A", variant |-> "ghost"]

\* ------------------------------- what the specification says of documents

\* Every node of a list of children, at every depth.
RECURSIVE NodesOf(_)
NodesOf(children) ==
    UNION {IF children[i].kind = "node"
           THEN {children[i]} \cup NodesOf(children[i].children)
           ELSE {} : i \in DOMAIN children}

TypesOf(doc) == {n.type : n \in NodesOf(doc.components)}

InRegistry(node) == node.type \in ALLOWED_COMPONENT_TYPES

\* The props hold acceptable values for the keys the schema of the type has.
KnownKeysConform(node) ==
    \A k \in DOMAIN node.props \cap DOMAIN COMPONENT_PROP_SCHEMAS[node.type] :
        Accepts(COMPONENT_PROP_SCHEMAS[node.type][k], node.props[k])

\* The props hold no key the schema of the type does not have.
NoUnknownKeys(node) ==
    DOMAIN node.props \subseteq DOMAIN COMPONENT_PROP_SCHEMAS[node.type]

\* The props satisfy the closed schema of the type: the defaults zod fills
\* in are values the schema accepts, so they add no condition.
SatisfiesClosedSchema(node) == NoUnknownKeys(node) /\ KnownKeysConform(node)

\* Every element of the generated JSX, at every depth.
RECURSIVE ElementsOf(_)
ElementsOf(jsx) ==
    UNION {IF jsx[i].kind = "element"
           THEN {jsx[i]} \cup ElementsOf(jsx[i].children)
           ELSE {} : i \in DOMAIN jsx}

\* The elements the generator wrote for the nodes of finalAST.
Emitted == ElementsOf(genResult.code.root.children)

\* The route has just called validateUIAST on finalAST.
Validated == rpc = "lowering" /\ astValidation.ran

\* The route has just called generateCodeFromAST on finalAST, and it returned.
Lowered == rpc = "lowered"

\* C11 (as stated): validateUIAST(D).valid is true exactly when every node of
\* D, at every depth, has a type of the registry and props that satisfy the
\* closed property schema of its type.
C11_ValidIffClosedSchemas ==
    Validated =>
        (astValidation.valid <=>
            \A n \in NodesOf(finalAST.components) :
                InRegistry(n) /\ SatisfiesClosedSchema(n))

\* C11 (amended): validateUIAST(D).valid is true exactly when every node of
\* D, at every depth, has a type of the registry and acceptable values for
\* the keys its schema has; a key outside the schema does not make D
\* invalid: it is reported in warnings (of a D whose types are all known).
C11_ValidIffKnownKeysConform ==
    Validated =>
        /\ astValidation.valid <=>
              \A n \in NodesOf(finalAST.components) :
                  InRegistry(n) /\ KnownKeysConform(n)
        /\ (\A n \in NodesOf(finalAST.components) : InRegistry(n)) =>
              (astValidation.warnings # <<>> <=>
                  \E n \in NodesOf(finalAST.components) : ~NoUnknownKeys(n))

\* A document accepted with a warning for a key outside the schema.
C11_Witness ==
    /\ Validated
    /\ astValidation.valid
    /\ astValidation.warnings # <<>>
    /\ \E n \in NodesOf(finalAST.components) : ~SatisfiesClosedSchema(n)

\* C12: the generator is called only on a document the validator accepted,
\* on the new branch and on the patch branch alike.
C12_LoweredOnlyWhenValid ==
    rpc \in {"lowered", "failed"} => astValidation.ran /\ astValidation.valid

\* C13: a prop key outside the schema of its type never becomes an attribute
\* of the emitted element, and is no generation error (it is a warning).
C13_UnknownKeysStripped ==
    Lowered =>
        /\ \A e \in Emitted :
              DOMAIN e.attrs \subseteq DOMAIN COMPONENT_PROP_SCHEMAS[e.tag]
        /\ \A i \in DOMAIN genResult.errors :
              genResult.errors[i].code # "unrecognized_keys"

C15_ModalOpenForced ==
    Lowered =>
        \A e \in Emitted :
            e.tag = "Modal" =>
                /\ "isOpen" \in DOMAIN e.attrs
                /\ e.attrs["isOpen"] = Attr("expr", "modalOpen")

\* C16: every Modal element of the generated code is closable: its onClose
\* is the handler that sets the modal state to closed, and that state and
\* handler are declared.
C16_ModalClosable ==
    Lowered =>
        \A e \in Emitted :
            e.tag = "Modal" =>
                /\ "onClose" \in DOMAIN e.attrs
                /\ e.attrs["onClose"] = Attr("expr", "handleCloseModal")
                /\ "handleCloseModal" \in Range(genResult.code.handlers)
                /\ "modalOpen" \in Range(genResult.code.state)

\* The import lines of the component library.
ComponentImports ==
    SelectSeq(genResult.code.imports,
              LAMBDA line : line.from \notin {"react", "lucide-react"})

\* How many times the import lines bring in the name.
TimesImported(name) ==
    Cardinality(UNION {{<<i, j>> : j \in {k \in DOMAIN ComponentImports[i].names :
                                               ComponentImports[i].names[k].alias = name}} :
                       i \in DOMAIN ComponentImports})

ContainsDenied(text) ==
    \E p \in AllPatterns : \E i \in DOMAIN text : MatchesInside(p, text[i])

\* The patterns of the deny list that match inside the text, as a set.
DeniedIn(text) ==
    {p \in AllPatterns : \E i \in DOMAIN text : MatchesInside(p, text[i])}

\* Control reaches the loop: only statements that fall through come before
\* it, and nothing else in the source keeps the function from being made.
ReachesLoop(code, loop) ==
    \E i \in DOMAIN code :
        /\ code[i] = loop
        /\ \A j \in DOMAIN code : j < i => code[j] = Benign
        /\ \A j \in DOMAIN code :
              j # i => code[j] \in {Benign, ReturnOne, ThrowBoom}

\* Whatever the regular expressions were last used on, analyzeCode finds a
\* source with a deny-listed piece unsafe and names the patterns that match.
AnalysisRejects ==
    ContainsDenied(sbCode) =>
        /\ ~analyzeCode(sbCode, sbLastIndex).safe
        /\ Range(analyzeCode(sbCode, sbLastIndex).issues) = DeniedIn(sbCode)

\* C18 (as stated): for every source that contains a deny-listed pattern,
\* analyzeCode returns safe = false with an issue naming the pattern, on
\* every call, and neither executeSandboxed nor the live preview constructs
\* a function from it.
C18_DeniedNeverConstructed ==
    /\ AnalysisRejects
    /\ ContainsDenied(sbCode) => ~sbConstructed

\* C18 (amended): analyzeCode finds every source with a deny-listed pattern
\* unsafe, naming the pattern, on every call; executeSandboxed constructs no
\* function from such a source, and the live preview constructs none from a
\* source that still contains a deny-listed pattern after the sanitizer has
\* cut out what it removes.
C18_DeniedAfterSanitizingNeverConstructed ==
    /\ AnalysisRejects
    /\ ContainsDenied(IF sbPath = "preview" THEN sanitizeGeneratedCode(sbCode)
                      ELSE sbCode)
          => ~sbConstructed

\* A preview run rejected by the analysis for a call of eval that the
\* sanitizer left in, next to an inline handler it removed.
C18_Witness ==
    /\ sbStage = "done"
    /\ sbPath = "preview"
    /\ sbFailure = "analysis"
    /\ ~sbConstructed
    /\ \E i \in DOMAIN sbCode : sbCode[i] = InlineHandler
    /\ \E i \in DOMAIN sbCode : sbCode[i] = EvalCall
    /\ sbPreview.error = Rejection("Security: ", <<"eval(">>)

InWindow(times, now) == {k \in DOMAIN times : now - times[k] < windowMs}

\* C21: per identifier, no more than maxRequests calls are admitted among
\* calls less than windowMs apart; a call is admitted exactly when fewer than
\* maxRequests of the identifier's own admitted calls lie inside the window,
\* whatever other identifiers did and however many calls were rejected.
C21_QuotaPerWindow ==
    /\ \A id \in Identifiers : \A i \in DOMAIN rlAdmitted[id] :
          Cardinality({j \in DOMAIN rlAdmitted[id] :
                          /\ j >= i
                          /\ rlAdmitted[id][j] - rlAdmitted[id][i] < windowMs})
             <= maxRequests
    /\ rlLast # NoCall =>
          /\ rlLast.returns =
                (Cardinality(InWindow(rlLast.before, rlLast.now)) < maxRequests)
          /\ rlLast.status = IF rlLast.returns THEN 200 ELSE 429

\* An identifier is admitted again once its window has moved on, after it
\* was full, while the other identifier's window is full.
C21_Witness ==
    /\ rlLast.returns
    /\ Len(rlLast.before) >= maxRequests
    /\ \E other \in Identifiers \ {rlLast.identifier} :
          Cardinality(InWindow(rlAdmitted[other], rlNow)) = maxRequests

\* A generation lands and changes the history.
GenerationLands ==
    /\ hClosure.held
    /\ ~hClosure'.held
    /\ hHistory' # hHistory

\* C22: historyIndex stays within -1 .. history.length - 1 and the code shown
\* is that of history[historyIndex] (the empty string at -1); a generation
\* keeps the versions up to the current index, discards exactly those after
\* it, and appends the new version.
C22_UndoRedoHistory ==
    /\ [](/\ hIndex \in -1 .. Len(hHistory) - 1
          /\ hCode = IF hIndex = -1 THEN "" ELSE hHistory[hIndex + 1])
    /\ [][GenerationLands =>
             hHistory' = Append(SubSeq(hHistory, 1, hIndex + 1), hCode')]_vars

\* C23: validateComponentUsage reports isValid = false for every code that
\* contains a dangerous pattern, on every call, whatever it was called on
\* before.
C23_DangerousAlwaysInvalid ==
    (vcCalled
     /\ \E p \in Range(VALIDATION_DANGEROUS_PATTERNS) :
           \E i \in DOMAIN vcCode : MatchesInside(p, vcCode[i]))
        => ~vcResult.isValid

\* The first position of the stage among those passed, 0 when not passed.
PassedAt(stage) ==
    IF \E i \in DOMAIN sbStages : sbStages[i] = stage
    THEN CHOOSE i \in DOMAIN sbStages :
            /\ sbStages[i] = stage
            /\ \A j \in DOMAIN sbStages : sbStages[j] = stage => i <= j
    ELSE 0

\* C24: a run reaches the executed stage only through the stages sanitized,
\* statically analyzed (safe), transpiled, scoped and loop-guarded, in that
\* order, in the preview and in executeSandboxed.
C24_StagesInOrder ==
    PassedAt("executed") > 0 =>
        /\ 0 < PassedAt("sanitized")
        /\ PassedAt("sanitized") < PassedAt("statically-analyzed safe")
        /\ PassedAt("statically-analyzed safe") < PassedAt("transpiled")
        /\ PassedAt("transpiled") < PassedAt("scoped")
        /\ PassedAt("scoped") < PassedAt("loop-guarded")
        /\ PassedAt("loop-guarded") < PassedAt("executed")
        /\ PassedAt("statically-analyzed unsafe") = 0

\* The generated JSX refers to the name in an attribute.
Referenced(name) ==
    \E e \in Emitted : \E k \in DOMAIN e.attrs :
        e.attrs[k].form = "expr" /\ e.attrs[k].text = name

\* Some node of the document, at any depth, has the type and, when a key is
\* given, that prop set to a truthy value.
HasNode(type, key) ==
    \E n \in NodesOf(finalAST.components) :
        /\ n.type = type
        /\ key # "" => (key \in DOMAIN n.props /\ Truthy(n.props[key]))

\* C25: the generated module declares the modal state and handlers exactly
\* when the tree holds a Modal, the sidebar state exactly when it holds a
\* collapsible Sidebar, the dropdown state exactly when it holds a Navbar
\* with a dropdown, and imports useState exactly when it declares some
\* state; it declares no state that the rendered output does not use,
\* neither by the state's name nor through one of its handlers.
C25_StateDeclaredIffUsed ==
    Lowered =>
        LET state == Range(genResult.code.state)
            handlers == Range(genResult.code.handlers)
        IN /\ "modalOpen" \in state <=> HasNode("Modal", "")
           /\ {"handleOpenModal", "handleCloseModal"} \subseteq handlers
                 <=> HasNode("Modal", "")
           /\ "sidebarCollapsed" \in state <=> HasNode("Sidebar", "collapsible")
           /\ "dropdownOpen" \in state <=> HasNode("Navbar", "hasDropdown")
           /\ (\E i \in DOMAIN genResult.code.imports :
                  genResult.code.imports[i].from = "react") <=> state # {}
           /\ "modalOpen" \in state =>
                 \E n \in {"modalOpen", "handleOpenModal", "handleCloseModal"} :
                    Referenced(n)
           /\ "sidebarCollapsed" \in state =>
                 \E n \in {"sidebarCollapsed", "toggleSidebar"} : Referenced(n)
           /\ "dropdownOpen" \in state =>
                 \E n \in {"dropdownOpen", "toggleDropdown"} : Referenced(n)

\* The identifiers the import block binds to components of the library.
ComponentIdentifiers ==
    UNION {{ComponentImports[i].names[j].alias : j \in DOMAIN ComponentImports[i].names} :
           i \in DOMAIN ComponentImports}

\* The import lines of the icon library.
IconImports ==
    SelectSeq(genResult.code.imports, LAMBDA line : line.from = "lucide-react")

\* The identifiers the import block binds to icons.
IconIdentifiers ==
    UNION {{IconImports[i].names[j].alias : j \in DOMAIN IconImports[i].names} :
           i \in DOMAIN IconImports}

\* C26: an icon or a logo whose name is the name of a component type of the
\* registry is imported under another identifier, and no identifier of the
\* import block of the generated code is bound to a component and to an
\* icon at once.
C26_IconsNeverShadowComponents ==
    Lowered =>
        /\ \A i \in DOMAIN IconImports : \A j \in DOMAIN IconImports[i].names :
              IconImports[i].names[j].name \in ALLOWED_COMPONENT_TYPES
                  => IconImports[i].names[j].alias # IconImports[i].names[j].name
        /\ ComponentIdentifiers \cap IconIdentifiers = {}

\* The specifiers of the import whose identifier is not a name of the
\* component scope.
IconsAsked == {s \in Range(scImports) : IdentifierOf(s) \notin DOMAIN componentScope}

\* The last specifier of the import list that binds the identifier.
LastBinding(identifier) ==
    LET at == {i \in DOMAIN scImports : IdentifierOf(scImports[i]) = identifier}
    IN scImports[CHOOSE i \in at : \A j \in at : j <= i]

\* C27: in the scope the preview executes the code in, an icon the code
\* imports and lucide-react does not have is bound to the placeholder
\* component, so that no reference to an imported icon is an unbound or
\* undefined identifier; an icon the library has is bound to that icon; and
\* a name of the component scope is bound to the component, whatever icon
\* or blocked global has the name.
C27_UnresolvedIconsArePlaceholders ==
    scStage = "run" =>
        /\ \A s \in IconsAsked :
              /\ scSeen[IdentifierOf(s)].kind \notin {"ReferenceError", "undefined"}
              /\ s.name \in LucideIcons /\ LastBinding(IdentifierOf(s)) = s
                    => scSeen[IdentifierOf(s)] = Value("icon", s.name)
              /\ (\A t \in IconsAsked :
                     IdentifierOf(t) = IdentifierOf(s) => t.name \notin LucideIcons)
                    => scSeen[IdentifierOf(s)] = Value("placeholder", IdentifierOf(s))
        /\ \A k \in DOMAIN componentScope : scScope[k] = componentScope[k]

\* The nodes renderNode is called on: those of the list, and those below a
\* node of the registry; the children of an unknown type are not rendered.
RECURSIVE Rendered(_)
Rendered(children) ==
    UNION {IF children[i].kind # "node" THEN {}
           ELSE IF InRegistry(children[i])
           THEN {children[i]} \cup Rendered(children[i].children)
           ELSE {children[i]} : i \in DOMAIN children}

\* As Rendered, counting every occurrence of a type outside the registry.
RECURSIVE UnknownsRendered(_, _)
UnknownsRendered(children, i) ==
    IF i > Len(children) THEN 0
    ELSE (IF children[i].kind # "node" THEN 0
          ELSE IF InRegistry(children[i])
          THEN UnknownsRendered(children[i].children, 1)
          ELSE 1)
         + UnknownsRendered(children, i + 1)

\* The last n elements of a sequence.
LastOf(s, n) == SubSeq(s, Len(s) - n + 1, Len(s))

\* The JSX has, node for node, what the list of children asks for: the
\* placeholder of the type where the type is unknown, an element of the type
\* where it is known, closed by the JSX of its own children (a `children`
\* prop is written before them).
RECURSIVE PlacedLike(_, _)
PlacedLike(children, jsx) ==
    /\ Len(jsx) = Len(children)
    /\ \A i \in DOMAIN children :
          IF children[i].kind # "node" THEN jsx[i].kind = "text"
          ELSE IF InRegistry(children[i])
          THEN /\ jsx[i].kind = "element"
               /\ jsx[i].tag = children[i].type
               /\ Len(jsx[i].children) >= Len(children[i].children)
               /\ PlacedLike(children[i].children,
                             LastOf(jsx[i].children, Len(children[i].children)))
          ELSE jsx[i] = Placeholder(children[i].type)

UnknownErrors ==
    SelectSeq(genResult.errors, LAMBDA e : e.code = "unknown_component")

\* C28: generateCodeFromAST does not throw on a node whose type is outside
\* the registry: the call returns code that has the placeholder comment at
\* the place of the node and every other node rendered in its place, it
\* records one error for each such node, and the type is neither among
\* usedComponents nor among the imports.
C28_UnknownTypeIsPlaceholderAndError ==
    rpc \in {"lowered", "failed"} /\ ~HasHole(finalAST.components) =>
        /\ rpc = "lowered"
        /\ PlacedLike(finalAST.components, genResult.code.root.children)
        /\ Len(UnknownErrors) = UnknownsRendered(finalAST.components, 1)
        /\ \A n \in Rendered(finalAST.components) :
              ~InRegistry(n) =>
                 /\ Len(SelectSeq(UnknownErrors, LAMBDA e : e.type = n.type)) >= 1
                 /\ n.type \notin Range(genResult.usedComponents)
                 /\ n.type \notin ComponentIdentifiers
                 /\ n.type \notin {e.tag : e \in Emitted}

\* A document whose first node has an unknown type and whose second node is
\* of the registry has been lowered.
C28_Witness ==
    /\ Lowered
    /\ Len(finalAST.components) = 2
    /\ finalAST.components[1].kind = "node"
    /\ ~InRegistry(finalAST.components[1])
    /\ InRegistry(finalAST.components[2])
    /\ genResult.code.root.children[1] = Placeholder(finalAST.components[1].type)
    /\ genResult.code.root.children[2].kind = "element"

\* The place of an event in the order of the stream.
RankOf(e) ==
    IF e.event = "done" THEN 8
    ELSE IF e.event = "error" THEN 9
    ELSE IF e.step = "planner" THEN (IF e.status = "start" THEN 1 ELSE 2)
    ELSE IF e.step = "generator"
    THEN (IF e.status = "start" THEN 3 ELSE IF e.status = "warning" THEN 4 ELSE 5)
    ELSE (IF e.status = "start" THEN 6 ELSE 7)

Terminal(e) == e.event \in {"done", "error"}

\* The events are in the order of the stream: later events have later
\* places, only warnings repeat, and up to `done` no place before it is
\* left out but that of the warnings.
InOrder(events) ==
    /\ \A i, j \in DOMAIN events :
          i < j => \/ RankOf(events[i]) < RankOf(events[j])
                   \/ RankOf(events[i]) = 4 /\ RankOf(events[j]) = 4
    /\ \A i \in DOMAIN events :
          RankOf(events[i]) <= 8 =>
             \A r \in (1 .. RankOf(events[i]) - 1) \ {4} :
                \E j \in 1 .. i - 1 : RankOf(events[j]) = r

\* C29: the events of the stream of a request the client reads to its end
\* come in the fixed order planner start, planner complete, generator
\* start, generator warnings if any, generator complete, explainer start,
\* explainer complete, done, with error ending the stream wherever a step
\* throws: a complete event follows the start event of its step, nothing
\* follows done or error, the stream is closed only after one of the two and
\* holds exactly one of them when it is closed, nothing is sent on a closed
\* stream, and every stream that has started is closed in the end.
C29_StreamEventsInOrder ==
    /\ [](/\ InOrder(stEvents)
          /\ \A i \in DOMAIN stEvents :
                /\ stEvents[i].event = "step" /\ stEvents[i].status = "complete" =>
                      \E j \in 1 .. i - 1 :
                         stEvents[j] = StepEvent(stEvents[i].step, "start")
                /\ Terminal(stEvents[i]) => i = Len(stEvents)
          /\ stClosed =>
                Cardinality({i \in DOMAIN stEvents : Terminal(stEvents[i])}) = 1)
    /\ [][stClosed => stEvents' = stEvents \/ ~stClosed']_vars
    /\ [](stPc \notin {"idle", "returned"} => <>stClosed)

\* The stream of the second request is closed; a throw in step 2 ended it
\* with error right after the generator was announced.
C29_Witness ==
    /\ stClosed
    /\ stRequests = 2
    /\ Len(stEvents) = 4
    /\ stEvents[3] = StepEvent("generator", "start")
    /\ stEvents[4] = Error

\* Every model of the provider with every key of it.
PairsOf(provider) ==
    {Pair(provider, ModelsOf(provider)[m], k) :
        m \in DOMAIN ModelsOf(provider), k \in 0 .. orKeys[provider] - 1}

====
